---- MODULE Spec2Model ----
(***************************************************************************)
(* A model of Pichop's image-cropper core: grid detection                  *)
(* (logic/gridDetection.ts), grid editing and cell resolution              *)
(* (logic/gridManipulation.ts) and the two-pass crop (logic/imageProcessor *)
(* with getStripOperations).                                               *)
(*                                                                         *)
(* Pixel coordinates are integers.  A colour is a triple <<r, g, b>>.      *)
(* An image is named by an id; PixelAt gives its pixels.                   *)
(* JavaScript numbers that are fractions in the code are kept exact:       *)
(*   - the view scale is held in tenths (scale = 10 means 1.0);            *)
(*   - a destLen is a fraction [num, den];                                 *)
(*   - an average energy e/n is compared with 5.0 as e < 5 * n.            *)
(***************************************************************************)
EXTENDS Integers, Sequences, FiniteSets, TLC

VARIABLES
    item,         \* the HistoryItem worked on: [width, height, img]
    grid,         \* the component's grid: a Grid record or Null
    eraseCall,    \* arguments of the last performErase call, or Null
    eraseResult,  \* what that call returned: a Grid, Null, or Pending
    selections,   \* the component's selections: a sequence of Rects, in half pixels
    mode,         \* the CropMode of the crop: "horizontal", "vertical" or "both"
    smartMode,    \* the smart-mode toggle
    cropResult,   \* what processImageCrop resolved with, or Pending
    planCall,     \* arguments of the last direct call of a planner function, or Null
    planResult,   \* what that call returned, or Pending
    ui,           \* the rest of the ImageCropper component's state, or Null
    steps         \* operations performed so far (bounds the exploration only)

eraseVars == <<eraseCall, eraseResult>>

cropVars == <<selections, mode, smartMode, cropResult>>

planVars == <<planCall, planResult>>

vars == <<item, grid, eraseVars, cropVars, planVars, ui, steps>>

\* null and "not yet returned", as records so that they compare with records
Null == [null |-> TRUE]
Pending == [pending |-> TRUE]

----------------------------------------------------------------------------
(* Arithmetic and sequence helpers (Math.abs, Math.min, Math.max, sort).   *)

Abs(x) == IF x < 0 THEN -x ELSE x
Min(a, b) == IF a < b THEN a ELSE b
Max(a, b) == IF a > b THEN a ELSE b

RECURSIVE InsertSorted(_, _)
InsertSorted(s, v) ==
    IF s = <<>> THEN <<v>>
    ELSE IF v < Head(s) THEN <<v>> \o s
    ELSE <<Head(s)>> \o InsertSorted(Tail(s), v)

\* Array.prototype.sort((a,b) => a-b) on a sequence of numbers
RECURSIVE SortNums(_)
SortNums(s) ==
    IF s = <<>> THEN <<>>
    ELSE InsertSorted(SortNums(SubSeq(s, 1, Len(s) - 1)), s[Len(s)])

\* Array.from(new Set(s)): first occurrences, in order
RECURSIVE Dedup(_)
Dedup(s) ==
    IF s = <<>> THEN <<>>
    ELSE LET d == Dedup(SubSeq(s, 1, Len(s) - 1))
         IN IF \E i \in 1..Len(d) : d[i] = s[Len(s)] THEN d
            ELSE Append(d, s[Len(s)])

MapPos(lines) == [i \in 1..Len(lines) |-> lines[i].pos]

\* the filter (v, i) => i === 0 || v > a[i-1] + 1 used by every lattice
CloseFilter(a) ==
    LET Keep(i) == i = 1 \/ a[i] > a[i-1] + 1
        RECURSIVE Go(_)
        Go(i) == IF i > Len(a) THEN <<>>
                 ELSE (IF Keep(i) THEN <<a[i]>> ELSE <<>>) \o Go(i + 1)
    IN Go(1)

Line(p, t, s, e) == [pos |-> p, thickness |-> t, start |-> s, end |-> e]
Rect(x, y, w, h) == [x |-> x, y |-> y, w |-> w, h |-> h]

----------------------------------------------------------------------------
(* performErase (logic/gridManipulation.ts)                                *)

ERASE_THRESHOLD_PX == 20

\* variant of EraseHit whose distance test admits the threshold itself
EraseHitInclusive(line, main, cross, sc) ==
    /\ Abs(line.pos - main) * sc <= ERASE_THRESHOLD_PX * 10
    /\ cross >= line.start
    /\ cross <= line.end

\* Math.abs(line.pos - main) < 20 / scale && cross in [start, end]
EraseHit(line, main, cross, sc) ==
    /\ Abs(line.pos - main) * sc < ERASE_THRESHOLD_PX * 10
    /\ cross >= line.start
    /\ cross <= line.end

\* positions of the perpendicular lines whose span covers line.pos, sorted
Crossings(perpLines, line) ==
    SortNums(MapPos(SelectSeq(perpLines,
        LAMBDA p : p.start <= line.pos /\ p.end >= line.pos)))

\* the for-loop with its break: [segStart, segEnd] around the cursor
RECURSIVE Bracket(_, _, _, _, _)
Bracket(crossings, i, cross, segStart, segEnd) ==
    IF i > Len(crossings) THEN <<segStart, segEnd>>
    ELSE IF crossings[i] <= cross
         THEN Bracket(crossings, i + 1, cross, Max(segStart, crossings[i]), segEnd)
         ELSE <<segStart, Min(segEnd, crossings[i])>>

\* variant of SegmentRemainders that keeps remainders of any positive length
SegmentRemaindersKeepAny(line, perpLines, cross) ==
    LET b == Bracket(Crossings(perpLines, line), 1, cross, line.start, line.end)
    IN (IF b[1] > line.start THEN <<[line EXCEPT !.end = b[1]]>> ELSE <<>>)
       \o
       (IF b[2] < line.end THEN <<[line EXCEPT !.start = b[2]]>> ELSE <<>>)

\* what one erased line leaves behind in segment mode
SegmentRemainders(line, perpLines, cross) ==
    LET b == Bracket(Crossings(perpLines, line), 1, cross, line.start, line.end)
        segStart == b[1]
        segEnd == b[2]
    IN (IF segStart > line.start + 1
        THEN <<[line EXCEPT !.end = segStart]>> ELSE <<>>)
       \o
       (IF segEnd < line.end - 1
        THEN <<[line EXCEPT !.start = segEnd]>> ELSE <<>>)

\* variant of processLines that puts what the erased lines leave behind
\* after the untouched lines
ProcessLinesRemaindersLast(lines, perpLines, main, cross, lineMode, sc) ==
    LET hit == SelectSeq(lines, LAMBDA l : EraseHit(l, main, cross, sc))
        RECURSIVE Left(_)
        Left(i) == IF i > Len(hit) THEN <<>>
                   ELSE (IF lineMode THEN <<>>
                         ELSE SegmentRemainders(hit[i], perpLines, cross)) \o Left(i + 1)
    IN [changed |-> hit # <<>>,
        res |-> SelectSeq(lines, LAMBDA l : ~EraseHit(l, main, cross, sc)) \o Left(1)]

\* processLines: [changed, res]
ProcessLines(lines, perpLines, main, cross, lineMode, sc) ==
    LET RECURSIVE Go(_)
        Go(i) ==
            IF i > Len(lines) THEN <<>>
            ELSE (IF EraseHit(lines[i], main, cross, sc)
                  THEN (IF lineMode THEN <<>>
                        ELSE SegmentRemainders(lines[i], perpLines, cross))
                  ELSE <<lines[i]>>) \o Go(i + 1)
    IN [changed |-> \E i \in 1..Len(lines) : EraseHit(lines[i], main, cross, sc),
        res |-> Go(1)]

PerformErase(g, c, lineMode, sc) ==
    IF g = Null THEN Null
    ELSE LET newH == ProcessLines(g.horizontal, g.vertical, c.y, c.x, lineMode, sc)
             newV == ProcessLines(g.vertical, g.horizontal, c.x, c.y, lineMode, sc)
         IN IF ~newH.changed /\ ~newV.changed THEN Null
            ELSE [horizontal |-> newH.res, vertical |-> newV.res]

----------------------------------------------------------------------------
(* The hover preview of the eraser (handlePointerMove, index.tsx): the     *)
(* segment it highlights, or Null.                                         *)

HOVER_THRESHOLD_PX == 6

\* check(type): the forEach over the lines of one axis.  best is
\* [seg, minDest], minDest held times the scale (in tenths) like the
\* distances it is compared with.
RECURSIVE HoverCheck(_, _, _, _, _, _, _, _, _)
HoverCheck(type, lines, perps, main, cross, isWholeLine, sc, i, best) ==
    IF i > Len(lines) THEN best
    ELSE LET l == lines[i]
             dist == Abs(main - l.pos) * sc
             b == Bracket(Crossings(perps, l), 1, cross, l.start, l.end)
         IN IF cross < l.start \/ cross > l.end \/ ~(dist < best.minDest)
            THEN HoverCheck(type, lines, perps, main, cross, isWholeLine, sc, i + 1, best)
            ELSE HoverCheck(type, lines, perps, main, cross, isWholeLine, sc, i + 1,
                            [seg |-> [type |-> type, lineIndex |-> i, start |-> b[1],
                                      end |-> b[2], isWholeLine |-> isWholeLine],
                             minDest |-> dist])

\* bestSeg after check('horizontal'); check('vertical')
HoveredSegment(g, c, useLineEraser, sc) ==
    LET start == [seg |-> Null, minDest |-> HOVER_THRESHOLD_PX * 10]
        afterH == HoverCheck("horizontal", g.horizontal, g.vertical, c.y, c.x,
                             useLineEraser, sc, 1, start)
        afterV == HoverCheck("vertical", g.vertical, g.horizontal, c.x, c.y,
                             useLineEraser, sc, 1, afterH)
    IN afterV.seg

----------------------------------------------------------------------------
(* getActualCells (logic/gridManipulation.ts): lattice and flood fill      *)

Lattice(lines, size) == CloseFilter(SortNums(Dedup(MapPos(lines) \o <<0, size>>)))

\* variant of HasWall that accepts only a line lying exactly on the edge
\* and reaching beyond both its ends
HasWallBeyond(lines, pos, s, e) ==
    \E i \in 1..Len(lines) :
        /\ lines[i].pos = pos
        /\ lines[i].start < s
        /\ lines[i].end > e

\* hasWall for the edge at coordinate pos spanning [s, e]
HasWall(lines, pos, s, e) ==
    \E i \in 1..Len(lines) :
        /\ Abs(lines[i].pos - pos) < 2
        /\ Max(lines[i].start, s) < Min(lines[i].end, e) - 1

\* variant of the neighbour list that looks right and down only (the other
\* two entries repeat them)
NeighboursForward(u_xs, u_ys, c, r) ==
    << <<c + 1, r, "v", u_xs[c + 1], u_ys[r], u_ys[r + 1]>>,
       <<c + 1, r, "v", u_xs[c + 1], u_ys[r], u_ys[r + 1]>>,
       <<c, r + 1, "h", u_ys[r + 1], u_xs[c], u_xs[c + 1]>>,
       <<c, r + 1, "h", u_ys[r + 1], u_xs[c], u_xs[c + 1]>> >>

\* the four neighbours of block <<c, r>>, in the code's order, as
\* <<nc, nr, type, pos, s, e>>
Neighbours(u_xs, u_ys, c, r) ==
    << <<c + 1, r, "v", u_xs[c + 1], u_ys[r], u_ys[r + 1]>>,
       <<c - 1, r, "v", u_xs[c], u_ys[r], u_ys[r + 1]>>,
       <<c, r + 1, "h", u_ys[r + 1], u_xs[c], u_xs[c + 1]>>,
       <<c, r - 1, "h", u_ys[r], u_xs[c], u_xs[c + 1]>> >>

\* the while-loop over the queue; blocks are <<c, r>> with 1-based indices
RECURSIVE FloodFill(_, _, _, _, _, _)
FloodFill(g, u_xs, u_ys, queue, visited, box) ==
    IF queue = <<>> THEN [visited |-> visited, box |-> box]
    ELSE
      LET curr == Head(queue)
          c == curr[1]
          r == curr[2]
          nb == Neighbours(u_xs, u_ys, c, r)
          box2 == [minX |-> Min(box.minX, u_xs[c]), maxX |-> Max(box.maxX, u_xs[c + 1]),
                   minY |-> Min(box.minY, u_ys[r]), maxY |-> Max(box.maxY, u_ys[r + 1])]
          RECURSIVE Visit(_, _, _)
          Visit(k, q, vis) ==
              IF k > 4 THEN <<q, vis>>
              ELSE LET n == nb[k]
                       inside == /\ n[1] >= 1 /\ n[1] <= Len(u_xs) - 1
                                 /\ n[2] >= 1 /\ n[2] <= Len(u_ys) - 1
                   IN IF ~inside \/ <<n[1], n[2]>> \in vis
                      THEN Visit(k + 1, q, vis)
                      ELSE IF HasWall(IF n[3] = "v" THEN g.vertical ELSE g.horizontal,
                                      n[4], n[5], n[6])
                           THEN Visit(k + 1, q, vis)
                           ELSE Visit(k + 1, Append(q, <<n[1], n[2]>>),
                                      vis \cup {<<n[1], n[2]>>})
          next == Visit(1, Tail(queue), visited)
      IN FloodFill(g, u_xs, u_ys, next[1], next[2], box2)

GetActualCells(g, w, h) ==
    LET u_ys == Lattice(g.horizontal, h)
        u_xs == Lattice(g.vertical, w)
        nc == Len(u_xs) - 1
        nr == Len(u_ys) - 1
        RECURSIVE Scan(_, _, _)
        Scan(r, c, visited) ==
            IF r > nr THEN <<>>
            ELSE IF c > nc THEN Scan(r + 1, 1, visited)
            ELSE IF <<c, r>> \in visited THEN Scan(r, c + 1, visited)
            ELSE LET f == FloodFill(g, u_xs, u_ys, << <<c, r>> >>,
                                    visited \cup {<<c, r>>},
                                    [minX |-> u_xs[c], maxX |-> u_xs[c + 1],
                                     minY |-> u_ys[r], maxY |-> u_ys[r + 1]])
                 IN <<Rect(f.box.minX, f.box.minY,
                           f.box.maxX - f.box.minX, f.box.maxY - f.box.minY)>>
                    \o Scan(r, c + 1, f.visited)
    IN Scan(1, 1, {})

----------------------------------------------------------------------------
(* Images.  An image id describes the decoded pixels of a dataUrl:         *)
(*   uniform   every pixel has colour c0                                    *)
(*   hband     rows top .. top+thick-1 have colour c1, the rest c0          *)
(*   vband     columns top .. top+thick-1 have colour c1, the rest c0       *)
(*   columns   1px columns alternate: c0 at even x, c1 at odd x             *)
(*   texture   rows top .. top+thick-1 alternate like columns, the rest c0  *)
(*   comb      row 0 has colour c1; from row top down, runs of thick pixels *)
(*             of colour c1 are separated by one pixel of c0; the rest c0   *)
(* Reading outside the buffer gives undefined in JavaScript, which the      *)
(* scans never do; PixelAt gives transparent black there.                   *)

White == <<255, 255, 255>>
Black == <<0, 0, 0>>
LightGrey == <<230, 230, 230>>
DarkGrey == <<229, 229, 229>>
Navy == <<0, 0, 128>>

Image(kind, c0, c1, top, thick) ==
    [kind |-> kind, c0 |-> c0, c1 |-> c1, top |-> top, thick |-> thick]
Uniform(c) == Image("uniform", c, c, 0, 0)

PixelAt(it, x, y) ==
    LET im == it.img
    IN IF x < 0 \/ y < 0 \/ x >= it.width \/ y >= it.height THEN Black
       ELSE CASE im.kind = "uniform" -> im.c0
              [] im.kind = "hband" ->
                    IF y >= im.top /\ y < im.top + im.thick THEN im.c1 ELSE im.c0
              [] im.kind = "vband" ->
                    IF x >= im.top /\ x < im.top + im.thick THEN im.c1 ELSE im.c0
              [] im.kind = "columns" -> IF x % 2 = 0 THEN im.c0 ELSE im.c1
              [] im.kind = "texture" ->
                    IF y >= im.top /\ y < im.top + im.thick
                    THEN (IF x % 2 = 0 THEN im.c1 ELSE im.c0) ELSE im.c0
              [] im.kind = "comb" ->
                    IF y = 0 \/ (y >= im.top /\ x % (im.thick + 1) < im.thick)
                    THEN im.c1 ELSE im.c0

----------------------------------------------------------------------------
(* detectGrid (logic/gridDetection.ts)                                     *)

CONTRAST_THRESH == 40
MIN_SEG_FLOOR == 16
GAP_TOLERANCE == 4
POS_TOLERANCE == 3
BORDER_MARGIN == 5

GetLum(it, x, y) == LET p == PixelAt(it, x, y) IN p[1] + p[2] + p[3]

\* length > MIN_SEG_LEN, with MIN_SEG_LEN = max(16, min(width, height) * 0.01)
LongEnough(len, width, height) ==
    /\ len > MIN_SEG_FLOOR
    /\ len * 100 > Min(width, height)

Segment(p, s, e) == [pos |-> p, start |-> s, end |-> e, length |-> e - s]

\* isEdge of the horizontal scan (neighbours above and below)
IsEdgeH(it, x, y) ==
    \/ Abs(GetLum(it, x, y) - GetLum(it, x, y - 1)) > CONTRAST_THRESH
    \/ Abs(GetLum(it, x, y) - GetLum(it, x, y + 1)) > CONTRAST_THRESH

\* isEdge of the vertical scan (neighbours left and right)
IsEdgeV(it, x, y) ==
    \/ Abs(GetLum(it, x, y) - GetLum(it, x - 1, y)) > CONTRAST_THRESH
    \/ Abs(GetLum(it, x, y) - GetLum(it, x + 1, y)) > CONTRAST_THRESH

\* one scan line: the runs of edge pixels longer than MIN_SEG_LEN, in the
\* order the loop meets them.  horizontal says which scan it is, pos is the
\* line's coordinate (a row of the horizontal scan, a column of the vertical
\* one).  A run starts where startX is set (an edge pixel after a non-edge
\* pixel or at 0) and ends at the next non-edge pixel or at the line's end.
ScanLine(it, horizontal, pos) ==
    LET width == it.width
        height == it.height
        n == IF horizontal THEN width ELSE height
        Edge(k) == IF horizontal THEN IsEdgeH(it, k, pos) ELSE IsEdgeV(it, pos, k)
        starts == {k \in 0..(n - 1) : Edge(k) /\ (k = 0 \/ ~Edge(k - 1))}
        StartNo(i) == CHOOSE s \in starts : Cardinality({u \in starts : u <= s}) = i
        EndOf(s) == CHOOSE e \in (s + 1)..n :
                        /\ e = n \/ ~Edge(e)
                        /\ \A k \in s..(e - 1) : Edge(k)
        runs == [i \in 1..Cardinality(starts) |->
                    Segment(pos, StartNo(i), EndOf(StartNo(i)))]
    IN SelectSeq(runs, LAMBDA s : LongEnough(s.end - s.start, width, height))

\* the scan lines from..to one after the other (the loop over y or x),
\* joined half by half
RECURSIVE ScanLines(_, _, _, _)
ScanLines(it, horizontal, from, to) ==
    IF from > to THEN <<>>
    ELSE IF from = to THEN ScanLine(it, horizontal, from)
    ELSE ScanLines(it, horizontal, from, (from + to) \div 2)
         \o ScanLines(it, horizontal, (from + to) \div 2 + 1, to)

RawH(it) == ScanLines(it, TRUE, 1, it.height - 2)

RawV(it) == ScanLines(it, FALSE, 1, it.width - 2)

\* a stable insertion sort of records by the field key
SortBy(s, key) ==
    LET Key(v) == v[key]
        RECURSIVE Ins(_, _, _)
        Ins(rest, v, i) ==
            IF i > Len(rest) THEN <<v>>
            ELSE IF Key(v) < Key(rest[i])
                 THEN <<v>> \o SubSeq(rest, i, Len(rest))
                 ELSE <<rest[i]>> \o Ins(rest, v, i + 1)
        RECURSIVE Go(_)
        Go(n) == IF n = 0 THEN <<>> ELSE Ins(Go(n - 1), s[n], 1)
    IN Go(Len(s))

RECURSIVE SumPos(_)
SumPos(s) == IF s = <<>> THEN 0 ELSE Head(s).pos + SumPos(Tail(s))

\* Math.round(sum / n) for sum >= 0
\* variant of RoundDiv that truncates
RoundDown(sum, n) == sum \div n

RoundDiv(sum, n) == (2 * sum + n) \div (2 * n)

\* processGroup: one cluster of segments -> merged segments at avgPos
ProcessGroup(group) ==
    LET avgPos == RoundDiv(SumPos(group), Len(group))
        g == SortBy(group, "start")
        RECURSIVE Go(_, _)
        Go(i, curr) ==
            IF i > Len(g) THEN <<curr>>
            ELSE IF g[i].start <= curr.end + GAP_TOLERANCE
                 THEN Go(i + 1, Segment(avgPos, curr.start, Max(curr.end, g[i].end)))
                 ELSE <<curr>> \o Go(i + 1, Segment(avgPos, g[i].start, g[i].end))
    IN Go(2, Segment(avgPos, g[1].start, g[1].end))

ClusterSegments(raw) ==
    LET items == SortBy(raw, "pos")
        RECURSIVE Go(_, _)
        Go(i, currentGroup) ==
            IF i > Len(items)
            THEN (IF currentGroup # <<>> THEN ProcessGroup(currentGroup) ELSE <<>>)
            ELSE IF Abs(items[i].pos - currentGroup[1].pos) <= POS_TOLERANCE
                 THEN Go(i + 1, Append(currentGroup, items[i]))
                 ELSE ProcessGroup(currentGroup) \o Go(i + 1, <<items[i]>>)
    IN IF items = <<>> THEN <<>> ELSE Go(2, <<items[1]>>)

\* full-span lines at the distinct clustered positions, ascending
FullLines(segs, span) ==
    LET ps == SortNums(Dedup(MapPos(segs)))
    IN [i \in 1..Len(ps) |-> Line(ps[i], 1, 0, span)]

\* the two "Add Borders" statements for one axis: size is the extent along
\* the axis of pos, span the length of a border line
AddBorders(lines, size, span) ==
    LET a == IF lines = <<>> \/ lines[1].pos > BORDER_MARGIN
             THEN <<Line(0, 0, 0, span)>> \o lines ELSE lines
    IN IF a # <<>> /\ a[Len(a)].pos < size - BORDER_MARGIN
       THEN Append(a, Line(size, 0, 0, span)) ELSE a

DetectGrid(it) ==
    [horizontal |-> AddBorders(FullLines(ClusterSegments(RawH(it)), it.width),
                               it.height, it.width),
     vertical |-> AddBorders(FullLines(ClusterSegments(RawV(it)), it.height),
                             it.width, it.height)]

----------------------------------------------------------------------------
(* The crop (logic/imageProcessor.ts): energy, safe zones, the per-strip   *)
(* draw operations, and processImageCrop.                                   *)

Range(s, e) == [start |-> s, end |-> e]

\* the element of a one-element set.  Only({e(v) : v \in {d}}) is e(d) with
\* d worked out once, the way the code holds a result in a const.
Only(S) == CHOOSE v \in S : TRUE

RECURSIVE GCD(_, _)
GCD(a, b) == IF b = 0 THEN a ELSE GCD(b, a % b)

\* the fraction n/d (d > 0) in lowest terms
Frac(n, d) ==
    IF n = 0 THEN [num |-> 0, den |-> 1]
    ELSE [num |-> n \div GCD(Abs(n), d), den |-> d \div GCD(Abs(n), d)]

FracAdd(a, b) == Frac(a.num * b.den + b.num * a.den, a.den * b.den)

\* a < b, also when one of them is Infinity
FracLess(a, b) == a.num * b.den < b.num * a.den

Infinity == [num |-> 1, den |-> 0]

\* ascending sequence of a set of numbers
RECURSIVE SeqOfSet(_)
SeqOfSet(S) ==
    IF S = {} THEN <<>>
    ELSE LET m == CHOOSE x \in S : \A y \in S : x <= y
         IN <<m>> \o SeqOfSet(S \ {m})

\* Array.prototype.findIndex over the predicate's values hits[i], 1-based;
\* 0 when the code gets -1
FindIndex(hits) ==
    IF \E i \in 1..Len(hits) : hits[i]
    THEN CHOOSE i \in 1..Len(hits) : hits[i] /\ \A j \in 1..(i - 1) : ~hits[j]
    ELSE 0

\* The pixel buffers the planner reads: the decoded image (originalData), or
\* the first pass's canvas read back (pass1Raw).  The first pass's canvas
\* holds, in each strip, the rows its operations drew, one after the other
\* from the top; rows no operation reached stay transparent black.  A
\* destination row takes the source row its top edge maps to, which is what
\* every interpolation gives for an unscaled operation and for an image
\* whose rows are all alike.
OriginalData(it) == [kind |-> "original", it |-> it, height |-> it.height]

Pass1Raw(it, strips, finalH) ==
    [kind |-> "pass1", it |-> it, height |-> finalH, strips |-> strips]

\* the source row drawn at destination row y by ops, or -1
SourceRow(ops, y) ==
    LET RECURSIVE Go(_, _)
        Go(k, dest) ==
            IF k > Len(ops) THEN -1
            ELSE LET next == FracAdd(dest, ops[k].destLen)
                 IN IF 100 * ops[k].destLen.num > ops[k].destLen.den
                       /\ ~FracLess(Frac(y, 1), dest)
                       /\ FracLess(Frac(y, 1), next)
                    THEN ops[k].srcStart
                         + ((y * dest.den - dest.num) * ops[k].srcLen * ops[k].destLen.den)
                           \div (dest.den * ops[k].destLen.num)
                    ELSE Go(k + 1, next)
    IN Go(1, Frac(0, 1))

BufferPixel(buf, x, y) ==
    IF buf.kind = "original" \/ buf.strips = <<>> THEN PixelAt(buf.it, x, y)
    ELSE LET k == FindIndex([j \in 1..Len(buf.strips) |->
                            buf.strips[j].strip.start <= x /\ x < buf.strips[j].strip.end])
             row == IF k = 0 THEN -1 ELSE SourceRow(buf.strips[k].ops, y)
         IN IF row < 0 \/ y >= buf.height THEN Black ELSE PixelAt(buf.it, x, row)

ENERGY_STRIDE == 2
DARK_BRIGHTNESS == 230
DARK_PENALTY == 20

\* the contribution of the sample at (x, y): |current - next|, plus the
\* penalty when (r + g + b) / 3 < 230
SampleEnergy(buf, x, y) ==
    Only({LET diff == Abs(p1[1] - p2[1]) + Abs(p1[2] - p2[2]) + Abs(p1[3] - p2[3])
          IN IF p1[1] + p1[2] + p1[3] < 3 * DARK_BRIGHTNESS
             THEN diff + DARK_PENALTY ELSE diff :
          p1 \in {BufferPixel(buf, x, y)}, p2 \in {BufferPixel(buf, x + 1, y)}})

\* getRegionEnergy: [num |-> energy, den |-> pixelsChecked], or 0/1 when
\* nothing was sampled
GetRegionEnergy(buf, width, startX, startY, w, h) ==
    LET maxY == Min(startY + h, buf.height)
        maxX == Min(startX + w, width)
        x0 == Max(0, startX)
        y0 == Max(0, startY)
        RECURSIVE Row(_, _)
        Row(x, y) == IF x < maxX - 1
                     THEN SampleEnergy(buf, x, y) + Row(x + ENERGY_STRIDE, y) ELSE 0
        RECURSIVE Rows(_)
        Rows(y) == IF y < maxY THEN Row(x0, y) + Rows(y + ENERGY_STRIDE) ELSE 0
        Count(from, below) ==
            IF below <= from THEN 0
            ELSE (below - from + ENERGY_STRIDE - 1) \div ENERGY_STRIDE
        pixelsChecked == Count(y0, maxY) * Count(x0, maxX - 1)
    IN IF pixelsChecked > 0 THEN [num |-> Rows(y0), den |-> pixelsChecked]
       ELSE [num |-> 0, den |-> 1]

SAFE_PADDING == 2
SAFE_STEP == 2

\* findSafeZone: the first position of least energy, [pos, energy]
FindSafeZone(buf, imgW, cell, targetSize, defaultStart, axis) ==
    LET vertical == axis = "vertical"
        searchStart == (IF vertical THEN cell.y ELSE cell.x) + SAFE_PADDING
        searchEnd == (IF vertical THEN cell.y + cell.h ELSE cell.x + cell.w)
                     - targetSize - SAFE_PADDING
        EnergyAt(p) ==
            IF vertical
            THEN GetRegionEnergy(buf, imgW, cell.x, p, cell.w, targetSize)
            ELSE GetRegionEnergy(buf, imgW, p, cell.y, targetSize, cell.h)
        RECURSIVE Go(_, _, _)
        Go(p, minEnergy, bestPos) ==
            IF p > searchEnd THEN [pos |-> bestPos, energy |-> minEnergy]
            ELSE Only({IF FracLess(energy, minEnergy)
                       THEN Go(p + SAFE_STEP, energy, p)
                       ELSE Go(p + SAFE_STEP, minEnergy, bestPos) :
                       energy \in {EnergyAt(p)}})
    IN IF searchEnd <= searchStart THEN [pos |-> defaultStart, energy |-> Infinity]
       ELSE Go(searchStart, Infinity, defaultStart)

\* variant of invertRanges that forgets what follows the last removed range
InvertRangesNoTail(totalSize, removeRanges) ==
    LET sorted == SortBy(removeRanges, "start")
        RECURSIVE Go(_, _)
        Go(i, cursor) ==
            IF i > Len(sorted) THEN <<>>
            ELSE (IF sorted[i].start > cursor
                  THEN <<Range(cursor, sorted[i].start)>> ELSE <<>>)
                 \o Go(i + 1, Max(cursor, sorted[i].end))
    IN Go(1, 0)

\* invertRanges: the kept spans between the removed ranges
InvertRanges(totalSize, removeRanges) ==
    LET sorted == SortBy(removeRanges, "start")
        RECURSIVE Go(_, _)
        Go(i, cursor) ==
            IF i > Len(sorted)
            THEN (IF cursor < totalSize THEN <<Range(cursor, totalSize)>> ELSE <<>>)
            ELSE (IF sorted[i].start > cursor
                  THEN <<Range(cursor, sorted[i].start)>> ELSE <<>>)
                 \o Go(i + 1, Max(cursor, sorted[i].end))
    IN Go(1, 0)

DrawOperation(srcStart, srcLen, destLen) ==
    [srcStart |-> srcStart, srcLen |-> srcLen, destLen |-> destLen]

\* createStandardCuts
CreateStandardCuts(totalSize, removeRanges) ==
    LET keep == InvertRanges(totalSize, removeRanges)
    IN [i \in 1..Len(keep) |->
           DrawOperation(keep[i].start, keep[i].end - keep[i].start,
                         Frac(keep[i].end - keep[i].start, 1))]

UNSAFE_ENERGY_THRESHOLD == 5
CELL_TOLERANCE == 5

\* cellCoversStrip
InStrip(c, stripStart, stripEnd, isVerticalCut) ==
    IF isVerticalCut THEN c.x < stripEnd /\ c.x + c.w > stripStart
    ELSE c.y < stripEnd /\ c.y + c.h > stripStart

\* the findIndex predicate of step 1: the cell covers the strip and holds
\* the range within 5px
CutInCell(c, r, stripStart, stripEnd, isVerticalCut) ==
    /\ InStrip(c, stripStart, stripEnd, isVerticalCut)
    /\ IF isVerticalCut
       THEN c.y <= r.start + CELL_TOLERANCE /\ c.y + c.h >= r.end - CELL_TOLERANCE
       ELSE c.x <= r.start + CELL_TOLERANCE /\ c.x + c.w >= r.end - CELL_TOLERANCE

\* best.energy < UNSAFE_ENERGY_THRESHOLD
IsSafe(energy) == energy.num < UNSAFE_ENERGY_THRESHOLD * energy.den

\* step 1 of getStripOperations: physicalCuts, and cellSquishMap as the
\* amount per cell index (0: the map has no entry; every amount is positive)
Strategy(removeRanges, axisCells, stripStart, stripEnd, buf, imgW, isVerticalCut) ==
    LET RECURSIVE Go(_, _, _)
        Go(i, physicalCuts, cellSquishMap) ==
            IF i > Len(removeRanges)
            THEN [physicalCuts |-> physicalCuts, cellSquishMap |-> cellSquishMap]
            ELSE LET r == removeRanges[i]
                     rSize == r.end - r.start
                     Found(cellIdx) ==
                         Only({IF IsSafe(best.energy)
                               THEN Go(i + 1,
                                       Append(physicalCuts, Range(best.pos, best.pos + rSize)),
                                       cellSquishMap)
                               ELSE Go(i + 1, physicalCuts,
                                       [cellSquishMap EXCEPT ![cellIdx] = @ + rSize]) :
                               best \in {FindSafeZone(buf, imgW, axisCells[cellIdx], rSize,
                                             r.start,
                                             IF isVerticalCut THEN "vertical" ELSE "horizontal")}})
                 IN Only({IF cellIdx = 0
                          THEN Go(i + 1, Append(physicalCuts, r), cellSquishMap)
                          ELSE Found(cellIdx) :
                          cellIdx \in {FindIndex([j \in 1..Len(axisCells) |->
                                           CutInCell(axisCells[j], r, stripStart, stripEnd,
                                                     isVerticalCut)])}})
    IN Go(1, <<>>, [k \in 1..Len(axisCells) |-> 0])

\* steps 2 and 3 of getStripOperations: the breakpoints and one operation
\* per segment that is kept
SegmentOperations(totalSize, st, axisCells, stripStart, stripEnd, isVerticalCut) ==
    LET CellLo(c) == IF isVerticalCut THEN c.y ELSE c.x
        CellDim(c) == IF isVerticalCut THEN c.h ELSE c.w
        boundaries ==
            {0, totalSize}
            \cup {st.physicalCuts[i].start : i \in 1..Len(st.physicalCuts)}
            \cup {st.physicalCuts[i].end : i \in 1..Len(st.physicalCuts)}
            \cup {Max(0, CellLo(axisCells[k])) :
                     k \in {j \in 1..Len(axisCells) : st.cellSquishMap[j] > 0}}
            \cup {Min(totalSize, CellLo(axisCells[k]) + CellDim(axisCells[k])) :
                     k \in {j \in 1..Len(axisCells) : st.cellSquishMap[j] > 0}}
        sortedPoints == SeqOfSet(boundaries)
        \* twice the segment's midpoint
        Mid2(i) == sortedPoints[i] + sortedPoints[i + 1]
        IsCut(i) == \E k \in 1..Len(st.physicalCuts) :
                        /\ Mid2(i) >= 2 * st.physicalCuts[k].start
                        /\ Mid2(i) <= 2 * st.physicalCuts[k].end
        CellOf(i) == FindIndex([j \in 1..Len(axisCells) |->
                        /\ InStrip(axisCells[j], stripStart, stripEnd, isVerticalCut)
                        /\ Mid2(i) >= 2 * CellLo(axisCells[j])
                        /\ Mid2(i) <= 2 * (CellLo(axisCells[j]) + CellDim(axisCells[j]))])
        DestLen(i) ==
            LET len == sortedPoints[i + 1] - sortedPoints[i]
                cellIdx == CellOf(i)
            IN IF cellIdx # 0 /\ st.cellSquishMap[cellIdx] > 0
               THEN LET safeDim == Max(CellDim(axisCells[cellIdx]), 1)
                        targetDim == Max(1, safeDim - st.cellSquishMap[cellIdx])
                    IN Frac(len * targetDim, safeDim)
               ELSE Frac(len, 1)
        RECURSIVE Go(_)
        Go(i) ==
            IF i > Len(sortedPoints) - 1 THEN <<>>
            ELSE (IF IsCut(i) THEN <<>>
                  ELSE <<DrawOperation(sortedPoints[i],
                                       sortedPoints[i + 1] - sortedPoints[i], DestLen(i))>>)
                 \o Go(i + 1)
    IN Go(1)

\* imgData is never null where processImageCrop calls the planner
GetStripOperations(totalSize, removeRanges, axisCells, stripStart, stripEnd, smart, buf, imgW, isVerticalCut) ==
    IF ~smart \/ buf = Null THEN CreateStandardCuts(totalSize, removeRanges)
    ELSE Only({SegmentOperations(totalSize, st, axisCells, stripStart, stripEnd,
                                 isVerticalCut) :
               st \in {Strategy(removeRanges, axisCells, stripStart, stripEnd, buf, imgW,
                                isVerticalCut)}})

\* A selection's coordinates are pointer coordinates and may be fractions:
\* the model holds them in half pixels.  Math.floor and Math.ceil of a half:
FloorHalf(v) == v \div 2

CeilHalf(v) == (v + 1) \div 2

\* the selections.forEach of processImageCrop: the x-range and y-range of s
XRange(s) ==
    LET rw == CeilHalf(Abs(s.w))
        rx == IF s.w < 0 THEN FloorHalf(s.x) - rw ELSE FloorHalf(s.x)
    IN Range(rx, rx + rw)

YRange(s) ==
    LET rh == CeilHalf(Abs(s.h))
        ry == IF s.h < 0 THEN FloorHalf(s.y) - rh ELSE FloorHalf(s.y)
    IN Range(ry, ry + rh)

\* variant of Overlaps that never merges
OverlapsNever(prev, curr) == FALSE

\* variant of the merge test that also joins ranges 1px apart
OverlapsWithinOne(prev, curr) == curr.start <= prev.end + 1

\* curr.start < prev.end + 1
Overlaps(prev, curr) == curr.start < prev.end + 1

\* mergeRanges
MergeRanges(ranges) ==
    LET sorted == SortBy(ranges, "start")
        RECURSIVE Go(_, _)
        Go(i, merged) ==
            IF i > Len(sorted) THEN merged
            ELSE LET prev == merged[Len(merged)]
                 IN IF Overlaps(prev, sorted[i])
                    THEN Go(i + 1, [merged EXCEPT ![Len(merged)].end =
                                        Max(prev.end, sorted[i].end)])
                    ELSE Go(i + 1, Append(merged, sorted[i]))
    IN IF ranges = <<>> THEN <<>> ELSE Go(2, <<sorted[1]>>)

RECURSIVE TotalLength(_)
TotalLength(ranges) ==
    IF ranges = <<>> THEN 0
    ELSE (Head(ranges).end - Head(ranges).start) + TotalLength(Tail(ranges))

\* variant of globalXRanges that removes columns in every mode
GlobalXRangesAnyMode(sels, cropMode) ==
    MergeRanges([i \in 1..Len(sels) |-> XRange(sels[i])])

GlobalXRanges(sels, cropMode) ==
    IF cropMode = "vertical" \/ cropMode = "both"
    THEN MergeRanges([i \in 1..Len(sels) |-> XRange(sels[i])]) ELSE <<>>

GlobalYRanges(sels, cropMode) ==
    IF cropMode = "horizontal" \/ cropMode = "both"
    THEN MergeRanges([i \in 1..Len(sels) |-> YRange(sels[i])]) ELSE <<>>

\* variant of the final size without the floor of 1
FinalSizeUnclamped(size, ranges) == size - TotalLength(ranges)

\* Math.max(1, size - remove)
FinalSize(size, ranges) == Max(1, size - TotalLength(ranges))

\* mapX, mapY and mapYGlobal: the coordinate less what was removed below it
RECURSIVE MapCoord(_, _)
MapCoord(v, ranges) ==
    IF ranges = <<>> THEN v
    ELSE MapCoord(v, Tail(ranges))
         - (IF v >= Head(ranges).end THEN Head(ranges).end - Head(ranges).start
            ELSE IF v > Head(ranges).start THEN v - Head(ranges).start ELSE 0)

\* variant of LineRemoved that also drops a line on a range's edge
LineRemovedInclusive(pos, ranges) ==
    \E i \in 1..Len(ranges) : pos >= ranges[i].start /\ pos <= ranges[i].end

\* l.pos > r.start && l.pos < r.end for some r
LineRemoved(pos, ranges) ==
    \E i \in 1..Len(ranges) : pos > ranges[i].start /\ pos < ranges[i].end

\* one axis of nextGrid: own are the ranges of the lines' axis of pos
RemapLines(lines, own, other) ==
    LET kept == SelectSeq(lines, LAMBDA l : ~LineRemoved(l.pos, own))
    IN [i \in 1..Len(kept) |->
           Line(MapCoord(kept[i].pos, own), kept[i].thickness,
                MapCoord(kept[i].start, other), MapCoord(kept[i].end, other))]

NextGrid(g, globalXRanges, globalYRanges) ==
    IF g = Null THEN Null
    ELSE [horizontal |-> RemapLines(g.horizontal, globalYRanges, globalXRanges),
          vertical |-> RemapLines(g.vertical, globalXRanges, globalYRanges)]

\* vStrips and hStrips: between the positions more than 1px apart
Strips(positions, size) ==
    LET unique == CloseFilter(SortNums(positions \o <<0, size>>))
    IN [i \in 1..(Len(unique) - 1) |-> Range(unique[i], unique[i + 1])]

\* pass 1: per vertical strip, the operations drawn (none when no row goes)
Pass1(it, g, globalYRanges, cells, smart) ==
    IF globalYRanges = <<>> THEN <<>>
    ELSE Only({[i \in 1..Len(vStrips) |->
                   [strip |-> vStrips[i],
                    ops |-> GetStripOperations(it.height, globalYRanges, cells, vStrips[i].start, vStrips[i].end, smart, OriginalData(it), it.width, TRUE)]] :
               vStrips \in {Strips(IF g = Null THEN <<>> ELSE MapPos(g.vertical), it.width)}})

MappedCells(cells, globalYRanges) ==
    [i \in 1..Len(cells) |->
        Rect(cells[i].x, MapCoord(cells[i].y, globalYRanges), cells[i].w,
             MapCoord(cells[i].y + cells[i].h, globalYRanges)
             - MapCoord(cells[i].y, globalYRanges))]

\* pass 2: per horizontal strip, the operations drawn (none when no column goes)
Pass2(it, g, globalXRanges, globalYRanges, cells, smart, pass1, finalH) ==
    IF globalXRanges = <<>> THEN <<>>
    ELSE LET hLinesOriginal == IF g = Null THEN <<>> ELSE MapPos(g.horizontal)
             hLinesMapped == [i \in 1..Len(hLinesOriginal) |->
                                 MapCoord(hLinesOriginal[i], globalYRanges)]
         IN Only({[i \in 1..Len(hStrips) |->
                      [strip |-> hStrips[i],
                       ops |-> GetStripOperations(it.width, globalXRanges, mappedCells, hStrips[i].start, hStrips[i].end, smart, pass1Raw, it.width, FALSE)]] :
                  hStrips \in {Strips(hLinesMapped, finalH)},
                  mappedCells \in {MappedCells(cells, globalYRanges)},
                  pass1Raw \in {Pass1Raw(it, pass1, finalH)}})

\* processImageCrop: the CropResult, with the operations of both passes in
\* place of the raster they draw
ProcessImageCrop(it, sels, g, cropMode, smart) ==
    LET Passes(globalXRanges, globalYRanges, cells) ==
            LET finalW == FinalSize(it.width, globalXRanges)
                finalH == FinalSize(it.height, globalYRanges)
            IN Only({[width |-> finalW,
                      height |-> finalH,
                      grid |-> NextGrid(g, globalXRanges, globalYRanges),
                      pass1 |-> pass1,
                      pass2 |-> Pass2(it, g, globalXRanges, globalYRanges, cells, smart,
                                      pass1, finalH)] :
                     pass1 \in {Pass1(it, g, globalYRanges, cells, smart)}})
    IN Only({Passes(globalXRanges, globalYRanges, cells) :
             globalXRanges \in {GlobalXRanges(sels, cropMode)},
             globalYRanges \in {GlobalYRanges(sels, cropMode)},
             cells \in {IF g # Null /\ smart
                        THEN GetActualCells(g, it.width, it.height) ELSE <<>>}})

----------------------------------------------------------------------------
(* Specification SpecDetect: detectGrid applied to one decoded image.      *)
(* The callback of detectGrid installs the grid (index.tsx, setGrid).      *)

MaxSide == 20

\* the parts of the state an operation not yet performed leaves as they start
NoErase == eraseCall = Null /\ eraseResult = Pending

NoCrop == selections = <<>> /\ mode = "both" /\ smartMode = TRUE /\ cropResult = Pending

NoPlan == planCall = Null /\ planResult = Pending

NoUI == ui = Null

Item(w, h, im) == [width |-> w, height |-> h, img |-> im]

DetectSides == {1, 2, 5, 6} \cup ((MaxSide - 3)..MaxSide)

DetectImages(h) ==
    {Uniform(White), Uniform(Black), Uniform(Navy),
     Image("columns", White, Black, 0, 0),
     Image("vband", White, Black, 2, 1)}
    \cup {Image("hband", White, Black, t, 2) : t \in 0..(h - 1)}

\* a wide image: a dark top row, then white rows, then CombTeeth dark runs
\* of the least qualifying length from row BORDER_MARGIN down
CombTeeth == 5
CombH == 8
CombW == CombTeeth * (MIN_SEG_FLOOR + 2) - 1
Comb == Item(CombW, CombH, Image("comb", White, Black, BORDER_MARGIN, MIN_SEG_FLOOR + 1))

InitDetect ==
    /\ \/ \E w \in DetectSides, h \in DetectSides :
             \E im \in DetectImages(h) : item = Item(w, h, im)
       \/ item = Comb
    /\ grid = Null
    /\ NoErase
    /\ NoCrop
    /\ NoPlan
    /\ NoUI
    /\ steps = 0

\* img.onload of detectGrid: scan, cluster, add borders, onComplete(grid)
DetectComplete ==
    /\ grid = Null
    /\ grid' = DetectGrid(item)
    /\ steps' = steps + 1
    /\ UNCHANGED <<ui, item, eraseVars, cropVars, planVars>>

NextDetect == DetectComplete

SpecDetect == InitDetect /\ [][NextDetect]_vars

----------------------------------------------------------------------------
(* Specification SpecErase: the eraser (handlePointerDown / handlePointer-  *)
(* Move in grid-editing mode): performErase on the current grid, and        *)
(* setGrid when it returns a grid.  The grids it starts from have the shape *)
(* detectGrid delivers: full-span lines plus the borders AddBorders adds.   *)

EraseW == 18
EraseH == 12
MaxErases == 2

\* 20 / scale is 4px at the largest zoom (5.0) and 20px at 1.0
EraseScales == {50, 10}

EraseXPos == {1, 6, 12}
EraseYPos == {6}

\* two lines 2px apart, as clustering can leave them
EraseXClose == {10, 12}

DetectedShape(xs, ys, w, h) ==
    [horizontal |-> AddBorders([i \in 1..Len(SeqOfSet(ys)) |->
                                   Line(SeqOfSet(ys)[i], 1, 0, w)], h, w),
     vertical |-> AddBorders([i \in 1..Len(SeqOfSet(xs)) |->
                                 Line(SeqOfSet(xs)[i], 1, 0, h)], w, h)]

InitErase ==
    /\ item = Item(EraseW, EraseH, Uniform(White))
    /\ \/ \E xs \in SUBSET EraseXPos, ys \in SUBSET EraseYPos :
             grid = DetectedShape(xs, ys, EraseW, EraseH)
       \/ grid = DetectedShape(EraseXClose, EraseYPos, EraseW, EraseH)
    /\ NoErase
    /\ NoCrop
    /\ NoPlan
    /\ NoUI
    /\ steps = 0

\* const newGrid = performErase(grid, coords, useLineEraser, scale);
\* if (newGrid) setGrid(newGrid);
Erase(c, lineMode, sc) ==
    /\ steps < MaxErases
    /\ grid # Null
    /\ LET newGrid == PerformErase(grid, c, lineMode, sc)
       IN /\ eraseResult' = newGrid
          /\ grid' = IF newGrid # Null THEN newGrid ELSE grid
    /\ eraseCall' = [grid |-> grid, coords |-> c, isLineMode |-> lineMode, scale |-> sc]
    /\ steps' = steps + 1
    /\ UNCHANGED <<ui, item, cropVars, planVars>>

\* pointer positions: on, beside and between the lines
EraseXs == {0, 2, 5, 7, 9, 14, EraseW}

EraseYs == {0, 3, 6, 8, EraseH}

NextErase ==
    \E x \in EraseXs, y \in EraseYs, lineMode \in BOOLEAN, sc \in EraseScales :
        Erase([x |-> x, y |-> y], lineMode, sc)

SpecErase == InitErase /\ [][NextErase]_vars

----------------------------------------------------------------------------
(* Specification SpecCrop: processImageCrop applied to an item, a grid as   *)
(* detectGrid shapes it (or none), and the selections the pointer handlers  *)
(* make: a resolved cell (toggleSelection) or a dragged rectangle more than *)
(* 2px on each side (handlePointerUp), which may leave the image.  The      *)
(* images are constant along y, so the first pass's canvas is known exactly.*)

CropW == 16
CropH == 12
MaxSel == 2

CropImages ==
    {Uniform(White), Uniform(Navy),
     Image("columns", White, Black, 0, 0),
     Image("vband", White, Black, 3, 1),
     Image("vband", White, Black, 5, 4)}

CropGrids ==
    {Null} \cup {DetectedShape(xs, ys, CropW, CropH) :
                    xs \in SUBSET {CropW \div 2}, ys \in SUBSET {CropH \div 2}}

\* a Rect of whole pixels as a selection
Whole(r) == Rect(2 * r.x, 2 * r.y, 2 * r.w, 2 * r.h)

\* dragged rectangles: inside a cell, overlapping the first, over the
\* top-left corner, with fractional corners, across the whole width, over
\* the bottom-right corner, from 1px below the middle line to the bottom edge
Drags ==
    <<Whole(Rect(1, 1, 5, 3)),
      Whole(Rect(3, 2, 4, 6)),
      Whole(Rect(-2, -1, 5, 4)),
      Rect(5, 7, 11, 5),
      Whole(Rect(0, 4, CropW, 3)),
      Whole(Rect(CropW - 3, CropH - 3, 5, 6)),
      Whole(Rect(2, CropH \div 2 + 1, 4, CropH - CropH \div 2 - 1))>>

\* the selections that can be made on grid g: its cells, then the drags
Candidates(g) ==
    (IF g = Null THEN <<>>
     ELSE LET cells == GetActualCells(g, CropW, CropH)
          IN [i \in 1..Len(cells) |-> Whole(cells[i])])
    \o Drags

InitCrop ==
    /\ \E im \in CropImages : item = Item(CropW, CropH, im)
    /\ grid \in CropGrids
    /\ \E S \in SUBSET (1..Len(Candidates(grid))) :
          /\ S # {}
          /\ Cardinality(S) <= MaxSel
          /\ selections = [k \in 1..Cardinality(S) |-> Candidates(grid)[SeqOfSet(S)[k]]]
    /\ mode \in {"horizontal", "vertical", "both"}
    /\ smartMode \in BOOLEAN
    /\ cropResult = Pending
    /\ NoErase
    /\ NoPlan
    /\ NoUI
    /\ steps = 0

\* const res = await processImageCrop(item, selections, grid, mode, smartMode)
Crop ==
    /\ cropResult = Pending
    /\ selections # <<>>
    /\ cropResult' = ProcessImageCrop(item, selections, grid, mode, smartMode)
    /\ steps' = steps + 1
    /\ UNCHANGED <<ui, item, grid, selections, mode, smartMode, eraseVars, planVars>>

NextCrop == Crop

SpecCrop == InitCrop /\ [][NextCrop]_vars

----------------------------------------------------------------------------
(* Specification SpecEdit: erasures and crops in any order on one image,    *)
(* from a grid as detectGrid shapes it.  A crop that resolves becomes the   *)
(* current item (handleCrop) and its grid the component's grid (the grid    *)
(* management effect, item.grid being set).  Smart mode is switched off, so *)
(* that no pixel of a cropped image is read; the grid a crop returns does   *)
(* not depend on it.                                                        *)

MaxEdits == 3

\* the raster of a crop result, whose pixels are not modelled
Cropped2D == Image("cropped", White, White, 0, 0)

EditPoints == {[x |-> 0, y |-> 0], [x |-> 7, y |-> 3], [x |-> 3, y |-> 5]}

\* the selections that can be made on the current item: its cells and two
\* dragged rectangles
EditCandidates ==
    LET cells == GetActualCells(grid, item.width, item.height)
    IN [i \in 1..Len(cells) |-> Whole(cells[i])] \o <<Drags[2], Drags[7]>>

InitEdit ==
    /\ item = Item(CropW, CropH, Uniform(White))
    /\ grid \in CropGrids \ {Null}
    /\ NoErase
    /\ selections = <<>> /\ mode = "both" /\ smartMode = FALSE /\ cropResult = Pending
    /\ NoPlan
    /\ NoUI
    /\ steps = 0

\* handlePointerDown in grid-editing mode
EditErase(c, lineMode, sc) ==
    /\ steps < MaxEdits
    /\ LET newGrid == PerformErase(grid, c, lineMode, sc)
       IN /\ eraseResult' = newGrid
          /\ grid' = IF newGrid # Null THEN newGrid ELSE grid
    /\ eraseCall' = [grid |-> grid, coords |-> c, isLineMode |-> lineMode, scale |-> sc]
    /\ steps' = steps + 1
    /\ UNCHANGED <<ui, item, cropVars, planVars>>

\* a selection, then handleCrop(m) and the effect that follows its result
EditCrop(k, m) ==
    /\ steps < MaxEdits
    /\ \E cands \in {EditCandidates} :
          /\ k <= Len(cands)
          /\ \E res \in {ProcessImageCrop(item, <<cands[k]>>, grid, m, smartMode)} :
                /\ selections' = <<cands[k]>>
                /\ mode' = m
                /\ cropResult' = res
                /\ item' = Item(res.width, res.height, Cropped2D)
                /\ grid' = res.grid
    /\ steps' = steps + 1
    /\ UNCHANGED <<ui, smartMode, eraseVars, planVars>>

NextEdit ==
    \/ \E c \in EditPoints, lineMode \in BOOLEAN, sc \in EraseScales :
          EditErase(c, lineMode, sc)
    \/ \E k \in 1..6, m \in {"horizontal", "vertical", "both"} : EditCrop(k, m)

SpecEdit == InitEdit /\ [][NextEdit]_vars

----------------------------------------------------------------------------
(* Specification SpecPlan: getRegionEnergy and the planner of one strip     *)
(* (getStripOperations in smart mode) applied to the decoded image, with    *)
(* the cells and strips of a grid as detectGrid shapes it and one removal   *)
(* range of 2 to 4 pixels inside the image.                                 *)

PlanW == 12
PlanH == 16

PlanImages ==
    {Uniform(c) : c \in {White, LightGrey, DarkGrey, Navy, Black}}
    \cup {Image("columns", White, Black, 0, 0), Image("columns", Black, White, 0, 0),
          Image("texture", White, Black, PlanH \div 2, PlanH - PlanH \div 2)}

PlanGrids ==
    {DetectedShape(xs, ys, PlanW, PlanH) :
        xs \in SUBSET {PlanW \div 2}, ys \in SUBSET {PlanH \div 2}}

InitPlan ==
    /\ \E im \in PlanImages : item = Item(PlanW, PlanH, im)
    /\ grid \in PlanGrids
    /\ NoErase
    /\ NoCrop
    /\ NoPlan
    /\ NoUI
    /\ steps = 0

\* getRegionEnergy(originalData, item.width, startX, startY, w, h)
RegionEnergy(startX, startY, w, h) ==
    /\ planCall = Null
    /\ planCall' = [fn |-> "getRegionEnergy", region |-> Rect(startX, startY, w, h)]
    /\ planResult' = GetRegionEnergy(OriginalData(item), item.width, startX, startY, w, h)
    /\ steps' = steps + 1
    /\ UNCHANGED <<ui, item, grid, eraseVars, cropVars>>

\* getStripOperations(size, [r], cells, strip.start, strip.end, true,
\* originalData, item.width, item.height, isVerticalCut) for the k-th strip
PlanStrip(r, k, isVerticalCut) ==
    LET size == IF isVerticalCut THEN item.height ELSE item.width
    IN /\ planCall = Null
       /\ r.end <= size
       /\ \E cells \in {GetActualCells(grid, item.width, item.height)},
             strips \in {IF isVerticalCut THEN Strips(MapPos(grid.vertical), item.width)
                         ELSE Strips(MapPos(grid.horizontal), item.height)} :
          /\ k <= Len(strips)
          /\ \E st \in {Strategy(<<r>>, cells, strips[k].start, strips[k].end,
                                 OriginalData(item), item.width, isVerticalCut)} :
               /\ planCall' = [fn |-> "getStripOperations", range |-> r, cells |-> cells,
                               strip |-> strips[k], isVerticalCut |-> isVerticalCut]
               /\ planResult' = [physicalCuts |-> st.physicalCuts,
                                 cellSquishMap |-> st.cellSquishMap,
                                 ops |-> SegmentOperations(size, st, cells, strips[k].start,
                                                           strips[k].end, isVerticalCut)]
               /\ steps' = steps + 1
               /\ UNCHANGED <<ui, item, grid, eraseVars, cropVars>>

NextPlan ==
    \/ \E startX \in {-1, 0, 1, 5, PlanW - 1}, startY \in {-1, 0, 3},
          w \in 1..PlanW, h \in {1, 2, PlanH} :
          RegionEnergy(startX, startY, w, h)
    \/ \E start \in 0..(PlanH - 2), len \in 2..4, k \in 1..2, isVerticalCut \in BOOLEAN :
          PlanStrip(Range(start, start + len), k, isVerticalCut)

SpecPlan == InitPlan /\ [][NextPlan]_vars

----------------------------------------------------------------------------
(* Specification SpecUI: the ImageCropper component (index.tsx) once the    *)
(* initial image has loaded: pointer press, move and release, the eraser    *)
(* toggle, undo and redo, crops (started, then resolved later) and grid     *)
(* detections (scheduled by the grid management effect, called back later). *)
(* An event handler runs as one step, the state updates it makes are        *)
(* applied together, and the effect on [historyIndex, history] runs in the  *)
(* same step as the update that triggers it.  ui holds the state that the   *)
(* variables grid, selections and smartMode do not: see InitUI.  The hover  *)
(* highlights, pan and zoom are left out; the scale stays at UIScale.       *)
(* A press, its moves and its release follow each other; a release can      *)
(* also come alone (the pointer leaves the canvas).  ui.gesture records the *)
(* press in progress: whether grid editing was on at the press and ever     *)
(* since, and whether a performErase call of it returned a grid; ui.last    *)
(* records the last step.                                                   *)

\* the image loaded: a dark band across a white one, wide enough for
\* detectGrid to find the band as one horizontal line
UIW == 20
UIH == 12
UIImage == Image("hband", White, Black, 5, 2)

\* history items ever made, crops in flight, selections and events of the
\* user: exploration bounds
MaxItems == 3
MaxInFlight == 1
MaxUISel == 1
MaxUIEvents == 8

\* the scale, zoomed in to the largest the pinch gesture allows (5.0), in tenths
UIScale == 50

UIPoints == {[x |-> 4, y |-> 3], [x |-> 10, y |-> 8]}

\* a HistoryItem; id tells the objects apart
HistoryItem(id, w, h, im, g) ==
    [id |-> id, width |-> w, height |-> h, img |-> im, grid |-> g]

CurrentItem == ui.history[ui.historyIndex + 1]

\* the grid management effect, run on the component state u with the grid g:
\* [ui, grid] after it
GridEffect(u, g) ==
    IF ~(u.historyIndex >= 0 /\ u.historyIndex + 1 <= Len(u.history))
    THEN [ui |-> u, grid |-> g]
    ELSE LET it == u.history[u.historyIndex + 1]
         IN IF it.grid # Null
            THEN [ui |-> [u EXCEPT !.isScanning = FALSE], grid |-> it.grid]
            ELSE [ui |-> [u EXCEPT !.isScanning = TRUE,
                                   !.detections = @ \cup {it}],
                  grid |-> Null]

\* what detectGrid finds in the image loaded
LoadedGrid == DetectGrid(Item(UIW, UIH, UIImage))

\* what detectGrid can deliver for an item: the grid of the image loaded (an
\* edit push keeps the image), or, for the raster of a crop, whose pixels
\* are not modelled, a grid of the detected shape for its size
DetectedGrids(it) ==
    IF it.img # Cropped2D THEN {LoadedGrid}
    ELSE {DetectedShape(xs, {}, it.width, it.height) :
             xs \in SUBSET {x \in {it.width \div 2} : x >= 1 /\ x <= it.width - 2}}

\* cells.find(c => x >= c.x && x <= c.x + c.w && y >= c.y && y <= c.y + c.h) || null
FindCell(cells, x, y) ==
    LET hits == {i \in 1..Len(cells) :
                    /\ x >= cells[i].x /\ x <= cells[i].x + cells[i].w
                    /\ y >= cells[i].y /\ y <= cells[i].y + cells[i].h}
    IN IF hits = {} THEN Null
       ELSE cells[CHOOSE i \in hits : \A j \in hits : i <= j]

\* getCellAt
GetCellAt(x, y) ==
    IF grid = Null THEN Null
    ELSE Only({FindCell(cells, x, y) :
               cells \in {GetActualCells(grid, CurrentItem.width, CurrentItem.height)}})

\* toggleSelection, on selections held in half pixels
ToggleSelection(sels, cell) ==
    LET c == Whole(cell)
        same == {i \in 1..Len(sels) :
                    /\ Abs(sels[i].x - c.x) < 2 /\ Abs(sels[i].y - c.y) < 2
                    /\ Abs(sels[i].w - c.w) < 2 /\ Abs(sels[i].h - c.h) < 2}
    IN IF same # {}
       THEN LET existsIndex == CHOOSE i \in same : \A j \in same : i <= j
            IN SubSeq(sels, 1, existsIndex - 1) \o SubSeq(sels, existsIndex + 1, Len(sels))
       ELSE Append(sels, c)

\* the selections after handlePointerUp ends the drag d outside grid editing
SelectionsAfterDrag(sels, d) ==
    IF Abs(d.w) < 5 /\ Abs(d.h) < 5
    THEN LET cell == GetCellAt(d.x, d.y)
         IN IF cell = Null THEN sels ELSE ToggleSelection(sels, cell)
    ELSE LET x == IF d.w < 0 THEN d.x + d.w ELSE d.x
             y == IF d.h < 0 THEN d.y + d.h ELSE d.y
             w == Abs(d.w)
             h == Abs(d.h)
         IN IF w > 2 /\ h > 2 THEN Append(sels, Whole(Rect(x, y, w, h))) ELSE sels

\* what processImageCrop resolves with for the arguments captured in p, as a
\* HistoryItem: size and grid; the raster is not modelled
CropResultItem(p) ==
    LET globalXRanges == GlobalXRanges(p.selections, p.mode)
        globalYRanges == GlobalYRanges(p.selections, p.mode)
    IN HistoryItem(p.id, FinalSize(p.item.width, globalXRanges),
                   FinalSize(p.item.height, globalYRanges), Cropped2D,
                   NextGrid(p.grid, globalXRanges, globalYRanges))

uiFrame == <<item, eraseVars, mode, smartMode, cropResult, planVars>>

\* one more event of the user, while the exploration allows one; the
\* callbacks and continuations of what was started are not counted
UserEvent == steps < MaxUIEvents /\ steps' = steps + 1


InitUI ==
    /\ item = Item(UIW, UIH, UIImage)
    /\ grid = Null
    /\ NoErase
    /\ NoCrop
    /\ NoPlan
    /\ steps = 0
    /\ ui = [history |-> <<HistoryItem(1, UIW, UIH, UIImage, Null)>>,
             historyIndex |-> 0,
             isEditingGrid |-> FALSE,
             isScanning |-> TRUE,
             isDragging |-> FALSE,
             dragStart |-> Null,
             currentDrag |-> Null,
             gridSnapshot |-> Null,
             detections |-> {HistoryItem(1, UIW, UIH, UIImage, Null)},
             crops |-> {},
             nextId |-> 2,
             gesture |-> Null,
             last |-> [kind |-> "load"]]

\* handlePointerDown
UIPointerDown(c, useLineEraser) ==
    /\ ui.gesture = Null
    /\ UserEvent
    /\ IF ui.isEditingGrid /\ grid # Null
       THEN \E newGrid \in {PerformErase(grid, c, useLineEraser, UIScale)} :
               /\ grid' = IF newGrid # Null THEN newGrid ELSE grid
               /\ ui' = [ui EXCEPT !.isDragging = TRUE,
                                   !.gridSnapshot = grid,
                                   !.gesture = [editing |-> TRUE, erased |-> newGrid # Null],
                                   !.last = [kind |-> "down"]]
       ELSE /\ grid' = grid
            /\ ui' = [ui EXCEPT !.dragStart = c,
                                !.isDragging = TRUE,
                                !.currentDrag = Rect(c.x, c.y, 0, 0),
                                !.gesture = [editing |-> ui.isEditingGrid, erased |-> FALSE],
                                !.last = [kind |-> "down"]]
    /\ UNCHANGED <<selections, uiFrame>>

\* handlePointerMove
UIPointerMove(c, useLineEraser) ==
    /\ ui.gesture # Null
    /\ UserEvent
    /\ IF ui.isEditingGrid /\ ui.isDragging /\ grid # Null
       THEN \E newGrid \in {PerformErase(grid, c, useLineEraser, UIScale)} :
               /\ grid' = IF newGrid # Null THEN newGrid ELSE grid
               /\ ui' = [ui EXCEPT !.gesture = [editing |-> @.editing,
                                                erased |-> @.erased \/ newGrid # Null],
                                   !.last = [kind |-> "move"]]
       ELSE /\ grid' = grid
            /\ ui' = [ui EXCEPT !.currentDrag =
                                    IF (ui.isEditingGrid /\ grid # Null)
                                       \/ ~ui.isDragging \/ ui.dragStart = Null
                                    THEN @
                                    ELSE Rect(ui.dragStart.x, ui.dragStart.y,
                                              c.x - ui.dragStart.x, c.y - ui.dragStart.y),
                                !.gesture = [editing |-> @.editing /\ ui.isEditingGrid,
                                             erased |-> @.erased],
                                !.last = [kind |-> "move"]]
    /\ UNCHANGED <<selections, uiFrame>>

\* handlePointerUp
UIPointerUp ==
    /\ UserEvent
    /\ IF ui.isEditingGrid
       THEN /\ selections' = selections
            /\ IF grid # Null /\ ui.gridSnapshot # Null /\ ui.gridSnapshot # grid
               THEN /\ ui.nextId <= MaxItems
                    /\ \E e \in {GridEffect(
                             [ui EXCEPT !.isDragging = FALSE,
                                        !.history = Append(SubSeq(ui.history, 1, ui.historyIndex + 1),
                                                           [CurrentItem EXCEPT !.grid = grid,
                                                                               !.id = ui.nextId]),
                                        !.historyIndex = ui.historyIndex + 1,
                                        !.nextId = @ + 1,
                                        !.gridSnapshot = Null,
                                        !.gesture = Null,
                                        !.last = [kind |-> "up"]], grid)} :
                          ui' = e.ui /\ grid' = e.grid
               ELSE /\ grid' = grid
                    /\ ui' = [ui EXCEPT !.isDragging = FALSE,
                                        !.gridSnapshot = Null,
                                        !.gesture = Null,
                                        !.last = [kind |-> "up"]]
       ELSE /\ grid' = grid
            /\ selections' = IF ui.currentDrag = Null THEN selections
                             ELSE SelectionsAfterDrag(selections, ui.currentDrag)
            /\ Len(selections') <= MaxUISel
            /\ ui' = [ui EXCEPT !.isDragging = FALSE,
                                !.currentDrag = Null,
                                !.gesture = Null,
                                !.last = [kind |-> "up"]]
    /\ UNCHANGED uiFrame

\* onToggleEraser
UIToggleEraserKeepSelections ==
    /\ UserEvent
    /\ ui' = [ui EXCEPT !.isEditingGrid = ~@,
                        !.gesture = IF @ = Null THEN Null
                                    ELSE [editing |-> FALSE, erased |-> @.erased],
                        !.last = [kind |-> "toggle"]]
    /\ UNCHANGED <<grid, selections, uiFrame>>

UIToggleEraser ==
    /\ UserEvent
    /\ ui' = [ui EXCEPT !.isEditingGrid = ~@,
                        !.gesture = IF @ = Null THEN Null
                                    ELSE [editing |-> FALSE, erased |-> @.erased],
                        !.last = [kind |-> "toggle"]]
    /\ selections' = <<>>
    /\ UNCHANGED <<grid, uiFrame>>

\* variant of onUndo that does not wait for the button to be enabled
UIUndoAnyTime ==
    /\ UserEvent
    /\ \E e \in {GridEffect([ui EXCEPT !.historyIndex = @ - 1,
                                      !.last = [kind |-> "undo"]], grid)} :
          ui' = e.ui /\ grid' = e.grid
    /\ selections' = <<>>
    /\ UNCHANGED uiFrame

\* onUndo, its button enabled
UIUndo ==
    /\ ~(ui.historyIndex <= 0)
    /\ UserEvent
    /\ \E e \in {GridEffect([ui EXCEPT !.historyIndex = @ - 1,
                                      !.last = [kind |-> "undo"]], grid)} :
          ui' = e.ui /\ grid' = e.grid
    /\ selections' = <<>>
    /\ UNCHANGED uiFrame

\* onRedo, its button enabled
UIRedo ==
    /\ ~(ui.historyIndex >= Len(ui.history) - 1)
    /\ UserEvent
    /\ \E e \in {GridEffect([ui EXCEPT !.historyIndex = @ + 1,
                                      !.last = [kind |-> "redo"]], grid)} :
          ui' = e.ui /\ grid' = e.grid
    /\ selections' = <<>>
    /\ UNCHANGED uiFrame

\* handleCrop up to its await, the crop buttons enabled
UICropStart(m) ==
    /\ ~(selections = <<>> \/ ui.isEditingGrid)
    /\ UserEvent
    /\ Cardinality(ui.crops) < MaxInFlight
    /\ ui.nextId <= MaxItems
    /\ ui' = [ui EXCEPT !.crops = @ \cup {[id |-> ui.nextId,
                                           history |-> ui.history,
                                           historyIndex |-> ui.historyIndex,
                                           item |-> CurrentItem,
                                           selections |-> selections,
                                           grid |-> grid,
                                           mode |-> m]},
                        !.nextId = @ + 1,
                        !.last = [kind |-> "cropStart"]]
    /\ UNCHANGED <<grid, selections, uiFrame>>

\* processImageCrop resolves (with null when there is no 2d context) and
\* handleCrop continues with the history and index it captured
UICropResolve(p, hasContext) ==
    /\ p \in ui.crops
    /\ steps' = steps
    /\ IF hasContext
       THEN /\ \E e \in {GridEffect(
                     [ui EXCEPT !.crops = @ \ {p},
                                !.history = Append(SubSeq(p.history, 1, p.historyIndex + 1),
                                                   CropResultItem(p)),
                                !.historyIndex = p.historyIndex + 1,
                                !.last = [kind |-> "cropResolve", pushed |-> TRUE,
                                          from |-> p.historyIndex, at |-> ui.historyIndex]], grid)} :
                  ui' = e.ui /\ grid' = e.grid
            /\ selections' = <<>>
       ELSE /\ ui' = [ui EXCEPT !.crops = @ \ {p},
                                !.last = [kind |-> "cropResolve", pushed |-> FALSE,
                                          from |-> p.historyIndex, at |-> ui.historyIndex]]
            /\ UNCHANGED <<grid, selections>>
    /\ UNCHANGED uiFrame

\* the timer of the effect fires, detectGrid(d) decodes the image and calls
\* back: setGrid(newGrid); setIsScanning(false)
UIDetectionCallback(d) ==
    /\ d \in ui.detections
    /\ steps' = steps
    /\ \E newGrid \in DetectedGrids(d) : grid' = newGrid
    /\ ui' = [ui EXCEPT !.detections = @ \ {d},
                        !.isScanning = FALSE,
                        !.last = [kind |-> "detect", item |-> d.id]]
    /\ UNCHANGED <<selections, uiFrame>>

\* the timer fires and detectGrid(d) returns at if (!ctx) return
UIDetectionNoContext(d) ==
    /\ d \in ui.detections
    /\ steps' = steps
    /\ ui' = [ui EXCEPT !.detections = @ \ {d},
                        !.last = [kind |-> "noContext"]]
    /\ UNCHANGED <<grid, selections, uiFrame>>

NextUI ==
    \/ \E c \in UIPoints, useLineEraser \in BOOLEAN : UIPointerDown(c, useLineEraser)
    \/ \E c \in UIPoints, useLineEraser \in BOOLEAN : UIPointerMove(c, useLineEraser)
    \/ UIPointerUp
    \/ UIToggleEraser
    \/ UIUndo
    \/ UIRedo
    \/ \E m \in {"horizontal", "vertical", "both"} : UICropStart(m)
    \/ \E p \in ui.crops, hasContext \in BOOLEAN : UICropResolve(p, hasContext)
    \/ \E d \in ui.detections : UIDetectionCallback(d)
    \/ \E d \in ui.detections : UIDetectionNoContext(d)

SpecUI == InitUI /\ [][NextUI]_vars

\* The timer of a scheduled detection fires and the image it decodes loads;
\* the image a crop decodes loads: what was started proceeds.
DetectionProceeds ==
    \E d \in ui.detections : UIDetectionCallback(d) \/ UIDetectionNoContext(d)

CropProceeds ==
    \E p \in ui.crops, hasContext \in BOOLEAN : UICropResolve(p, hasContext)

SpecUILive ==
    InitUI /\ [][NextUI]_vars /\ WF_vars(DetectionProceeds) /\ WF_vars(CropProceeds)

----------------------------------------------------------------------------
(* Properties of the ImageCropper component, stated over SpecUI.            *)

\* C26: once the image has loaded, the history index always names an item
\* of the history: 0 <= historyIndex < history.length
C26_IndexInRange ==
    ui.historyIndex >= 0 /\ ui.historyIndex < Len(ui.history)

\* a crop has completed and pushed its result after undo had moved the index
\* below the one the crop captured when it started
C26_Witness ==
    /\ ui.last.kind = "cropResolve"
    /\ ui.last.pushed
    /\ ui.last.at < ui.last.from
    /\ ui.historyIndex = ui.last.from + 1

\* C24: when the callback of a detection installs its grid, the history
\* item the detection was started for is the current item
C24_DetectionOfCurrentItem ==
    ui.last.kind = "detect" => ui.last.item = CurrentItem.id

\* the step is the release of a press made, moved and released in grid editing
EditRelease ==
    /\ ui.gesture # Null
    /\ ui.gesture.editing
    /\ ui'.last.kind = "up"
    /\ ui'.gesture = Null

\* C22: a press, move and release in grid editing whose performErase calls
\* all return null leaves history and historyIndex as they are, and the
\* release after a call that returned a grid appends one item, the current
\* item with the edited grid, after the current one, drops the items beyond
\* it and makes it current
C22_ReleasePushesEditedGrid ==
    [][/\ (ui.gesture # Null /\ ui.gesture.editing /\ ~ui.gesture.erased
            /\ (ui'.last.kind = "up" \/ (ui'.last.kind = "move" /\ ~ui'.gesture.erased)))
           => (ui'.history = ui.history /\ ui'.historyIndex = ui.historyIndex)
       /\ (EditRelease /\ ui.gesture.erased)
           => /\ Len(ui'.history) = ui.historyIndex + 2
              /\ SubSeq(ui'.history, 1, ui.historyIndex + 1)
                    = SubSeq(ui.history, 1, ui.historyIndex + 1)
              /\ ui'.historyIndex = ui.historyIndex + 1
              /\ ui'.history[ui.historyIndex + 2].grid = grid
              /\ ui'.history[ui.historyIndex + 2].img = CurrentItem.img]_vars

\* the step is handlePointerDown, handlePointerMove or handlePointerUp
PointerStep == ui'.last.kind \in {"down", "move", "up"}

\* C23: grid editing and selecting or cropping exclude each other: while
\* isEditingGrid holds the selections are empty, no pointer step changes
\* them and no crop starts; while it does not hold no pointer step changes
\* the grid
C23_EditingExcludesSelecting ==
    [][/\ ui'.isEditingGrid => selections' = <<>>
       /\ (ui.isEditingGrid /\ PointerStep) => selections' = selections
       /\ ui'.last.kind = "cropStart" => ~ui.isEditingGrid
       /\ (~ui.isEditingGrid /\ PointerStep) => grid' = grid]_vars

\* the eraser was turned on in the middle of a selection drag while a crop
\* awaits its image, and the next move of that drag has erased lines
C23_Witness ==
    /\ ui.isEditingGrid
    /\ ui.crops # {}
    /\ ui.gesture # Null
    /\ ~ui.gesture.editing
    /\ ui.gesture.erased
    /\ ui.currentDrag # Null
    /\ ui.last.kind = "move"
    /\ selections = <<>>

\* C25: what was started completes: a scan that has begun (isScanning, for
\* an item without stored grid) leads to isScanning off with a grid
\* installed, and a crop in flight leads to its promise resolved
C25_StartedOperationsComplete ==
    /\ ui.isScanning ~> (~ui.isScanning /\ grid # Null)
    /\ (ui.crops # {}) ~> (ui.crops = {})

----------------------------------------------------------------------------
(* Properties of the eraser, stated over the last performErase call        *)
(* (eraseCall) and what it returned (eraseResult).                         *)

Axes == {"h", "v"}

OtherAxis(a) == IF a = "h" THEN "v" ELSE "h"

SeqRange(s) == {s[i] : i \in 1..Len(s)}

SetMax(S) == CHOOSE x \in S : \A y \in S : y <= x

SetMin(S) == CHOOSE x \in S : \A y \in S : x <= y

LinesOf(g, a) == IF a = "h" THEN g.horizontal ELSE g.vertical

CallLines(a) == LinesOf(eraseCall.grid, a)

\* the lists the component holds after the call
AfterLines(a) == IF eraseResult = Null THEN CallLines(a) ELSE LinesOf(eraseResult, a)

\* the point's coordinate across the lines of axis a, and along them
CallMain(a) == IF a = "h" THEN eraseCall.coords.y ELSE eraseCall.coords.x

CallCross(a) == IF a = "h" THEN eraseCall.coords.x ELSE eraseCall.coords.y

\* distance to the point, in pixels
Distance(a, l) == Abs(l.pos - CallMain(a))

\* within 20 / scale of the point (scale in tenths) and spanning it
Eligible(a, l) ==
    /\ Distance(a, l) * eraseCall.scale < 200
    /\ l.start <= CallCross(a)
    /\ CallCross(a) <= l.end

EligibleLines == {<<a, l>> \in Axes \X (SeqRange(CallLines("h")) \cup SeqRange(CallLines("v"))) :
                     l \in SeqRange(CallLines(a)) /\ Eligible(a, l)}

\* the lines of the call's grid that are not returned as they were
ChangedLines == {<<a, l>> \in Axes \X (SeqRange(CallLines("h")) \cup SeqRange(CallLines("v"))) :
                    l \in SeqRange(CallLines(a)) /\ l \notin SeqRange(AfterLines(a))}

\* C4 as stated: one call changes at most one line, the eligible line at
\* minimum distance; every other line is returned unchanged.
C4_AtMostOneLineChanged ==
    eraseCall # Null =>
        /\ Cardinality(ChangedLines) <= 1
        /\ \A c \in ChangedLines :
              /\ c \in EligibleLines
              /\ \A d \in EligibleLines : Distance(c[1], c[2]) <= Distance(d[1], d[2])

\* the point misses every line
Miss == EligibleLines = {}

\* C6: a call whose point is within the threshold of no line spanning it
\* returns null, and the grid keeps the same lines in the same order.
C6_MissReturnsNull ==
    (eraseCall # Null /\ Miss) =>
        /\ eraseResult = Null
        /\ grid = eraseCall.grid

\* a miss although some line is near the point (it does not span it)
C6_Witness ==
    /\ eraseCall # Null
    /\ Miss
    /\ \E a \in Axes : \E l \in SeqRange(CallLines(a)) :
          Distance(a, l) * eraseCall.scale < 200
    /\ eraseResult = Null
    /\ grid = eraseCall.grid

\* positions of the perpendicular lines crossing line l of axis a
CrossingPositions(a, l) ==
    {p.pos : p \in {q \in SeqRange(CallLines(OtherAxis(a))) :
                        q.start <= l.pos /\ l.pos <= q.end}}

\* s: the largest crossing position <= the cursor, or the line's start
SegS(a, l) ==
    LET below == {p \in CrossingPositions(a, l) : p <= CallCross(a)}
    IN IF below = {} THEN l.start ELSE SetMax(below)

\* e: the smallest crossing position > the cursor, or the line's end
SegE(a, l) ==
    LET above == {p \in CrossingPositions(a, l) : p > CallCross(a)}
    IN IF above = {} THEN l.end ELSE SetMin(above)

Fragments(a, l) ==
    (IF SegS(a, l) > l.start + 1
     THEN <<[pos |-> l.pos, thickness |-> l.thickness,
             start |-> l.start, end |-> SegS(a, l)]>> ELSE <<>>)
    \o
    (IF SegE(a, l) < l.end - 1
     THEN <<[pos |-> l.pos, thickness |-> l.thickness,
             start |-> SegE(a, l), end |-> l.end]>> ELSE <<>>)

RECURSIVE ExpectedFrom(_, _)
ExpectedFrom(a, i) ==
    IF i > Len(CallLines(a)) THEN <<>>
    ELSE (IF Eligible(a, CallLines(a)[i])
          THEN Fragments(a, CallLines(a)[i])
          ELSE <<CallLines(a)[i]>>) \o ExpectedFrom(a, i + 1)

\* the unit piece [k, k+1] of line l is still drawn after the call
Covered(a, l, k) ==
    \E f \in SeqRange(AfterLines(a)) :
        /\ f.pos = l.pos
        /\ f.thickness = l.thickness
        /\ f.start <= k
        /\ k + 1 <= f.end

SegmentCall == eraseCall # Null /\ ~eraseCall.isLineMode

\* C5 as stated: each erased line is replaced by the fragments [start, s] and
\* [e, end] under the keep rules, and no part of it outside [s, e] is removed.
C5_NothingOutsideRemoved ==
    SegmentCall =>
        \A a \in Axes :
            /\ AfterLines(a) = ExpectedFrom(a, 1)
            /\ \A l \in SeqRange(CallLines(a)) : Eligible(a, l) =>
                  \A k \in l.start..(l.end - 1) :
                      (k + 1 <= SegS(a, l) \/ k >= SegE(a, l)) => Covered(a, l, k)

\* C5 (amended): each erased line is replaced by the fragments [start, s] and
\* [e, end] under the keep rules, pos and thickness preserved; outside [s, e]
\* only a remainder of at most 1px (s <= start+1, e >= end-1) is removed.
C5_FragmentsAndSlivers ==
    SegmentCall =>
        \A a \in Axes :
            /\ AfterLines(a) = ExpectedFrom(a, 1)
            /\ \A l \in SeqRange(CallLines(a)) : Eligible(a, l) =>
                  \A k \in l.start..(l.end - 1) :
                      \/ Covered(a, l, k)
                      \/ (SegS(a, l) <= k /\ k + 1 <= SegE(a, l))
                      \/ (k + 1 <= SegS(a, l) /\ SegS(a, l) <= l.start + 1)
                      \/ (k >= SegE(a, l) /\ SegE(a, l) >= l.end - 1)

\* a line crossed twice, erased between the crossings, leaves both fragments
C5_Witness ==
    /\ SegmentCall
    /\ \E a \in Axes : \E l \in SeqRange(CallLines(a)) :
          /\ Eligible(a, l)
          /\ l.start < SegS(a, l) - 1
          /\ SegS(a, l) <= CallCross(a)
          /\ CallCross(a) < SegE(a, l)
          /\ SegE(a, l) < l.end - 1
          /\ [l EXCEPT !.end = SegS(a, l)] \in SeqRange(eraseResult.horizontal \o eraseResult.vertical)
          /\ [l EXCEPT !.start = SegE(a, l)] \in SeqRange(eraseResult.horizontal \o eraseResult.vertical)

\* s[1..k-1] \o s[k+1..]
RemoveAt(s, k) == [i \in 1..(Len(s) - 1) |-> IF i < k THEN s[i] ELSE s[i + 1]]

\* N columns by 1 row: the two horizontal borders, and full-height vertical
\* lines from 0 to the width whose positions are more than 1px apart
NByOne(g, w, h) ==
    /\ Len(g.horizontal) = 2
    /\ \A i \in 1..2 : g.horizontal[i].start = 0 /\ g.horizontal[i].end = w
    /\ g.horizontal[1].pos = 0 /\ g.horizontal[2].pos = h
    /\ Len(g.vertical) >= 2
    /\ \A i \in 1..Len(g.vertical) : g.vertical[i].start = 0 /\ g.vertical[i].end = h
    /\ g.vertical[1].pos = 0 /\ g.vertical[Len(g.vertical)].pos = w
    /\ \A i \in 1..(Len(g.vertical) - 1) : g.vertical[i + 1].pos > g.vertical[i].pos + 1

\* the cells of the columns between consecutive lines
ColumnCells(lines, h) ==
    [i \in 1..(Len(lines) - 1) |->
        Rect(lines[i].pos, 0, lines[i + 1].pos - lines[i].pos, h)]

\* the call erased exactly the k-th vertical line, whole, and nothing else
ErasedVertical(k) ==
    /\ eraseCall # Null
    /\ eraseCall.isLineMode
    /\ eraseResult # Null
    /\ NByOne(eraseCall.grid, item.width, item.height)
    /\ k \in 2..(Len(eraseCall.grid.vertical) - 1)
    /\ eraseResult.horizontal = eraseCall.grid.horizontal
    /\ eraseResult.vertical = RemoveAt(eraseCall.grid.vertical, k)

\* C7: erasing one internal full-span vertical line, whole, from a grid of
\* N columns by 1 row leaves exactly N-1 cells: the two cells beside the
\* erased line become one Rect spanning both, the others are unchanged.
C7_EraseMergesTwoCells ==
    \A k \in 2..5 : ErasedVertical(k) =>
        LET v == eraseCall.grid.vertical
            N == Len(v) - 1
            before == GetActualCells(eraseCall.grid, item.width, item.height)
            after == GetActualCells(eraseResult, item.width, item.height)
        IN /\ before = ColumnCells(v, item.height)
           /\ Len(after) = N - 1
           /\ after = ColumnCells(RemoveAt(v, k), item.height)
           /\ after[k - 1] = Rect(v[k - 1].pos, 0, v[k + 1].pos - v[k - 1].pos, item.height)

\* three columns, the second internal line erased: two cells remain, the
\* second spanning the former second and third columns
C7_Witness ==
    /\ ErasedVertical(3)
    /\ Len(eraseCall.grid.vertical) = 4
    /\ Len(GetActualCells(eraseResult, item.width, item.height)) = 2
    /\ GetActualCells(eraseResult, item.width, item.height)[2]
         = Rect(eraseCall.grid.vertical[2].pos, 0,
                item.width - eraseCall.grid.vertical[2].pos, item.height)

\* the atomic blocks <<c, r>> of the lattice u_xs, u_ys
Blocks(u_xs, u_ys) == (1..(Len(u_xs) - 1)) \X (1..(Len(u_ys) - 1))

Adjacent(a, b) == Abs(a[1] - b[1]) + Abs(a[2] - b[2]) = 1

\* some line near the boundary overlaps the edge [s, e] by more than 1px;
\* near is at less than 2px, or at 2px too when atTwo is set
LineBlocks(lines, boundary, s, e, atTwo) ==
    \E i \in 1..Len(lines) :
        /\ \/ Abs(lines[i].pos - boundary) < 2
           \/ atTwo /\ Abs(lines[i].pos - boundary) = 2
        /\ Min(lines[i].end, e) - Max(lines[i].start, s) > 1

\* the transition between the adjacent blocks a and b is blocked
Blocked(g, u_xs, u_ys, a, b, atTwo) ==
    IF a[2] = b[2]
    THEN LineBlocks(g.vertical, u_xs[Max(a[1], b[1])], u_ys[a[2]], u_ys[a[2] + 1], atTwo)
    ELSE LineBlocks(g.horizontal, u_ys[Max(a[2], b[2])], u_xs[a[1]], u_xs[a[1] + 1], atTwo)

\* the unblocked transitions, as pairs of blocks
OpenPairs(g, u_xs, u_ys, atTwo) ==
    {p \in Blocks(u_xs, u_ys) \X Blocks(u_xs, u_ys) :
        Adjacent(p[1], p[2]) /\ ~Blocked(g, u_xs, u_ys, p[1], p[2], atTwo)}

\* the blocks a chain of transitions from the set open reaches from S
RECURSIVE Reached(_, _)
Reached(open, S) ==
    LET more == {p[2] : p \in {q \in open : q[1] \in S}}
    IN IF more \subseteq S THEN S ELSE Reached(open, S \cup more)

\* the position of a block in the scan (row by row)
ScanIndex(u_xs, b) == (b[2] - 1) * (Len(u_xs) - 1) + b[1]

BoundingBox(u_xs, u_ys, S) ==
    LET x1 == SetMin({u_xs[b[1]] : b \in S})
        x2 == SetMax({u_xs[b[1] + 1] : b \in S})
        y1 == SetMin({u_ys[b[2]] : b \in S})
        y2 == SetMax({u_ys[b[2] + 1] : b \in S})
    IN Rect(x1, y1, x2 - x1, y2 - y1)

\* the chain-connected sets of blocks, in the scan order of their first block
Chains(g, u_xs, u_ys, atTwo) ==
    Only({Only({[i \in 1..Len(firsts) |-> sets[firsts[i]]]
                : firsts \in {SeqOfSet({n \in DOMAIN sets :
                                 \A b \in sets[n] : n <= ScanIndex(u_xs, b)})}})
          : sets \in {Only({[n \in 1..Cardinality(Blocks(u_xs, u_ys)) |->
                               Reached(open, {CHOOSE b \in Blocks(u_xs, u_ys) :
                                                  ScanIndex(u_xs, b) = n})]
                            : open \in {OpenPairs(g, u_xs, u_ys, atTwo)}})}})

GridChains(atTwo) ==
    Only({Chains(grid, l[1], l[2], atTwo)
          : l \in {<<Lattice(grid.vertical, item.width),
                     Lattice(grid.horizontal, item.height)>>}})

GridBoxes(atTwo) ==
    Only({[i \in 1..Len(ch) |->
              BoundingBox(Lattice(grid.vertical, item.width),
                          Lattice(grid.horizontal, item.height), ch[i])]
          : ch \in {GridChains(atTwo)}})

\* C19: the resolved cells are, in scan order, the bounding boxes of the
\* sets of atomic blocks connected by chains of unblocked transitions,
\* where a transition is blocked iff a line of the separating axis lies at
\* 2px or less from the shared boundary and overlaps the shared edge by
\* more than 1px.
C19_WallWithinTwo ==
    grid # Null => GetActualCells(grid, item.width, item.height) = GridBoxes(TRUE)

\* C19, with the distance the code tests: a transition is blocked iff a line
\* of the separating axis lies at less than 2px from the shared boundary and
\* overlaps the shared edge by more than 1px; the resolved cells are, in
\* scan order, the bounding boxes of the sets of blocks connected by chains
\* of unblocked transitions.
C19_CellsAreOpenChains ==
    grid # Null => GetActualCells(grid, item.width, item.height) = GridBoxes(FALSE)

\* two erased segments leave a cell that is reached only by going down and
\* then back left, beside a cell closed on all sides
C19_Witness ==
    /\ grid # Null
    /\ steps = 2
    /\ \E ch \in {GridChains(FALSE)} :
          /\ Len(ch) = 4
          /\ ch[2] = {<<2, 1>>, <<2, 2>>, <<1, 2>>}
          /\ Cardinality(UNION {ch[i] : i \in 1..Len(ch)}) = 6
    /\ GetActualCells(grid, item.width, item.height)[2]
          = Rect(0, 0, Lattice(grid.vertical, item.width)[3], item.height)

\* the interiors of the Rects a and b meet
InteriorsMeet(a, b) ==
    /\ Max(a.x, b.x) < Min(a.x + a.w, b.x + b.w)
    /\ Max(a.y, b.y) < Min(a.y + a.h, b.y + b.h)

\* the Rect a lies within the Rect b
Within(a, b) ==
    /\ b.x <= a.x /\ a.x + a.w <= b.x + b.w
    /\ b.y <= a.y /\ a.y + a.h <= b.y + b.h

RECURSIVE AreaSum(_)
AreaSum(cells) ==
    IF cells = <<>> THEN 0
    ELSE cells[1].w * cells[1].h + AreaSum(Tail(cells))

\* the cells lie in the canvas, no two of them share interior points, and
\* their areas add up to the canvas: they tile it
Tiles(cells, w, h) ==
    /\ \A i \in 1..Len(cells) : Within(cells[i], Rect(0, 0, w, h))
    /\ \A i, j \in 1..Len(cells) : i < j => ~InteriorsMeet(cells[i], cells[j])
    /\ AreaSum(cells) = w * h

\* C27: for every grid reached by erasing, the Rects of getActualCells cover
\* the whole canvas and have pairwise disjoint interiors.
C27_CellsTileCanvas ==
    grid # Null =>
        \E cells \in {GetActualCells(grid, item.width, item.height)} :
            Tiles(cells, item.width, item.height)

\* C30: an erase that changes the grid leaves at most as many cells as there
\* were, and every cell of before lies within some cell of after.
C30_EraseOnlyMerges ==
    (eraseCall # Null /\ eraseResult # Null) =>
        \E before \in {GetActualCells(eraseCall.grid, item.width, item.height)},
           after \in {GetActualCells(eraseResult, item.width, item.height)} :
            /\ Len(after) <= Len(before)
            /\ \A i \in 1..Len(before) : \E j \in 1..Len(after) :
                   Within(before[i], after[j])

\* the lines left when the highlighted part of lines[k] goes: the whole
\* line, or its span from s to e
WithoutHighlighted(lines, k, s, e, whole) ==
    SubSeq(lines, 1, k - 1)
    \o (IF whole THEN <<>>
        ELSE (IF s > lines[k].start THEN <<[lines[k] EXCEPT !.end = s]>> ELSE <<>>)
             \o (IF e < lines[k].end THEN <<[lines[k] EXCEPT !.start = e]>> ELSE <<>>))
    \o SubSeq(lines, k + 1, Len(lines))

\* the grid g less what the preview hov highlights
GridWithoutHighlighted(g, hov) ==
    IF hov.type = "horizontal"
    THEN [horizontal |-> WithoutHighlighted(g.horizontal, hov.lineIndex, hov.start,
                                            hov.end, hov.isWholeLine),
          vertical |-> g.vertical]
    ELSE [horizontal |-> g.horizontal,
          vertical |-> WithoutHighlighted(g.vertical, hov.lineIndex, hov.start,
                                          hov.end, hov.isWholeLine)]

\* C29: performErase changes the grid iff the hover preview highlights a
\* segment at the same position, scale and eraser mode, and what it removes
\* is exactly what is highlighted.
C29_PreviewAgreesWithErase ==
    eraseCall # Null =>
        \E hov \in {HoveredSegment(eraseCall.grid, eraseCall.coords,
                                    eraseCall.isLineMode, eraseCall.scale)} :
            /\ eraseResult # Null <=> hov # Null
            /\ hov # Null => eraseResult = GridWithoutHighlighted(eraseCall.grid, hov)

----------------------------------------------------------------------------
(* Properties of the grid under erasures and crops in any order.           *)

Ascending(lines) ==
    \A i \in 1..(Len(lines) - 1) : lines[i].pos <= lines[i + 1].pos

\* C21: after any sequence of erasures and crops from a detected grid, the
\* horizontal lines and the vertical lines are each ordered by pos,
\* ascending (not decreasing).
C21_OrderedByPos ==
    Ascending(grid.horizontal) /\ Ascending(grid.vertical)

\* a segment erase has left one part of the middle vertical line in the
\* place of the line, and a crop has then moved it to the left
C21_Witness ==
    /\ steps = MaxEdits
    /\ eraseCall # Null
    /\ eraseResult # Null
    /\ ~eraseCall.isLineMode
    /\ cropResult # Pending
    /\ cropResult.grid = grid
    /\ \E i \in 2..(Len(grid.vertical) - 1) :
          /\ grid.vertical[i].thickness = 1
          /\ grid.vertical[i].end - grid.vertical[i].start < item.height
          /\ grid.vertical[i - 1].pos < grid.vertical[i].pos
          /\ grid.vertical[i].pos < grid.vertical[i + 1].pos
          /\ grid.vertical[i].pos < CropW \div 2

----------------------------------------------------------------------------
(* Properties of detectGrid, stated over the grid it delivered.            *)

\* the scan found no run long enough on either axis
NoRun == RawH(item) = <<>> /\ RawV(item) = <<>>

\* C8 as stated: with no qualifying contrast run the grid holds exactly the
\* borders at 0 and height and at 0 and width, for every image size, and
\* resolving it gives one cell covering the whole image.
C8_FourBordersOneCell ==
    (grid # Null /\ NoRun) =>
        /\ MapPos(grid.horizontal) = <<0, item.height>>
        /\ MapPos(grid.vertical) = <<0, item.width>>
        /\ GetActualCells(grid, item.width, item.height)
             = <<Rect(0, 0, item.width, item.height)>>

\* a white image with one black band on rows top and top+1, wide enough for
\* the band's run to qualify and with the band clear of both borders
CentralBand ==
    /\ item.img.kind = "hband"
    /\ item.img.c0 = White
    /\ item.img.c1 = Black
    /\ item.img.thick = 2
    /\ item.width > MIN_SEG_FLOOR
    /\ item.img.top >= BORDER_MARGIN
    /\ item.img.top + 1 < item.height - BORDER_MARGIN

\* C9 as stated: the band at y gives the horizontal lines 0, y, height and
\* only the border verticals.
C9_LineAtBandTop ==
    (grid # Null /\ CentralBand) =>
        /\ MapPos(grid.horizontal) = <<0, item.img.top, item.height>>
        /\ MapPos(grid.vertical) = <<0, item.width>>

\* C9 (amended): a band on rows y and y+1 (5 <= y <= height-7, width >= 17)
\* gives exactly the horizontal lines 0, y+1, height, each spanning the
\* width, and only the border verticals 0 and width.
C9_LineBelowBandTop ==
    (grid # Null /\ CentralBand) =>
        /\ MapPos(grid.horizontal) = <<0, item.img.top + 1, item.height>>
        /\ \A i \in 1..Len(grid.horizontal) :
              grid.horizontal[i].start = 0 /\ grid.horizontal[i].end = item.width
        /\ MapPos(grid.vertical) = <<0, item.width>>

\* the band in the middle of the largest square image
C9_Witness ==
    /\ grid # Null
    /\ CentralBand
    /\ item.width = MaxSide
    /\ item.height = MaxSide
    /\ item.img.top = MaxSide \div 2
    /\ MapPos(grid.horizontal) = <<0, MaxSide \div 2 + 1, MaxSide>>

\* strictly ascending with more than 1px between neighbours
Apart(positions) ==
    \A i \in 1..(Len(positions) - 1) : positions[i + 1] - positions[i] > 1

\* C11: in every grid detectGrid delivers, the horizontal and the vertical
\* list are sorted by pos ascending and consecutive positions differ by more
\* than 1px.
C11_SortedAndApart ==
    grid # Null => Apart(MapPos(grid.horizontal)) /\ Apart(MapPos(grid.vertical))

----------------------------------------------------------------------------
(* Properties of processImageCrop, stated over its arguments (item,         *)
(* selections, grid, mode, smartMode) and what it resolved with.            *)

Cropped == cropResult # Pending

\* the axis is one the mode removes from
Selects(axis) ==
    IF axis = "x" THEN mode \in {"vertical", "both"}
    ELSE mode \in {"horizontal", "both"}

AxisRange(s, axis) == IF axis = "x" THEN XRange(s) ELSE YRange(s)

AxisLength(axis) == IF axis = "x" THEN item.width ELSE item.height

\* coordinates wide enough for every range of every selection
Span == (0 - 2 * CropW)..(3 * CropW)

\* the unit piece [k, k+1] of the axis lies in some selection's range
Removed(axis, k) ==
    /\ Selects(axis)
    /\ \E i \in 1..Len(selections) :
          /\ AxisRange(selections[i], axis).start <= k
          /\ k + 1 <= AxisRange(selections[i], axis).end

\* the total length of the merged ranges of the axis
RemovedTotal(axis) == Cardinality({k \in Span : Removed(axis, k)})

\* the total overlap of the removed ranges with what lies below v
RemovedBelow(axis, v) == Cardinality({k \in Span : k < v /\ Removed(axis, k)})

\* C1 as stated: width = item.width minus the merged x-ranges' length,
\* height = item.height minus the merged y-ranges' length.
C1_DimensionsExact ==
    Cropped =>
        /\ cropResult.width = item.width - RemovedTotal("x")
        /\ cropResult.height = item.height - RemovedTotal("y")

\* C1 (amended): width = max(1, item.width - merged x-ranges' length),
\* height = max(1, item.height - merged y-ranges' length), the same for
\* smartMode true and false.
C1_DimensionsClamped ==
    Cropped =>
        /\ cropResult.width = Max(1, item.width - RemovedTotal("x"))
        /\ cropResult.height = Max(1, item.height - RemovedTotal("y"))
        /\ ProcessImageCrop(item, selections, grid, mode, ~smartMode).width
             = cropResult.width
        /\ ProcessImageCrop(item, selections, grid, mode, ~smartMode).height
             = cropResult.height

\* two overlapping selections, both axes removed from, nothing clamped
C1_Witness ==
    /\ Cropped
    /\ mode = "both"
    /\ Len(selections) = 2
    /\ \A axis \in {"x", "y"} :
          RemovedTotal(axis) < TotalLength([i \in 1..2 |-> AxisRange(selections[i], axis)])
    /\ cropResult.width = item.width - RemovedTotal("x")
    /\ cropResult.height = item.height - RemovedTotal("y")
    /\ cropResult.width > 1
    /\ cropResult.height > 1

RECURSIVE DestSum(_)
DestSum(ops) ==
    IF ops = <<>> THEN Frac(0, 1)
    ELSE FracAdd(Head(ops).destLen, DestSum(Tail(ops)))

\* C2 as stated: in smart mode the destLen values of every strip of pass 1
\* sum to item.height minus the merged y-ranges' length, and those of every
\* strip of pass 2 to item.width minus the merged x-ranges' length.
C2_StripsFillFinalSize ==
    (Cropped /\ smartMode) =>
        /\ \A i \in 1..Len(cropResult.pass1) :
              DestSum(cropResult.pass1[i].ops) = Frac(item.height - RemovedTotal("y"), 1)
        /\ \A i \in 1..Len(cropResult.pass2) :
              DestSum(cropResult.pass2[i].ops) = Frac(item.width - RemovedTotal("x"), 1)

\* pos lies strictly inside a removed range of the axis
StrictlyInside(axis, pos) == Removed(axis, pos - 1) /\ Removed(axis, pos)

Moved(axis, v) == v - RemovedBelow(axis, v)

\* the lines the claim expects: own is the axis of pos, other that of the span
ExpectedLines(lines, own, other) ==
    LET kept == SelectSeq(lines, LAMBDA l : ~StrictlyInside(own, l.pos))
    IN [i \in 1..Len(kept) |->
           [pos |-> Moved(own, kept[i].pos),
            thickness |-> kept[i].thickness,
            start |-> Moved(other, kept[i].start),
            end |-> Moved(other, kept[i].end)]]

\* C3: a line whose pos is strictly inside a removed range of its axis is
\* absent from the returned grid; every other line is present, in order,
\* with pos reduced by the removed length below it on its own axis and
\* start and end by the removed length below them on the other axis.
C3_GridRemapped ==
    (Cropped /\ grid # Null) =>
        /\ cropResult.grid.horizontal = ExpectedLines(grid.horizontal, "y", "x")
        /\ cropResult.grid.vertical = ExpectedLines(grid.vertical, "x", "y")

\* rows [4, 7] removed from lines at 0, 6 and the height: 0 stays, 6 is
\* dropped, the last moves up by 3
C3_Witness ==
    /\ Cropped
    /\ grid # Null
    /\ mode = "horizontal"
    /\ MapPos(grid.horizontal) = <<0, CropH \div 2, CropH>>
    /\ Len(selections) = 1
    /\ YRange(selections[1]) = Range(4, 7)
    /\ MapPos(cropResult.grid.horizontal) = <<0, CropH - 3>>

\* the lines of before that survive correspond, in order, to the lines of
\* after, and survivors at different positions are still at different
\* positions
KeepsApart(before, after, axis) ==
    LET kept == SelectSeq(before, LAMBDA l : ~StrictlyInside(axis, l.pos))
    IN /\ Len(after) = Len(kept)
       /\ \A i, j \in 1..Len(kept) :
              kept[i].pos # kept[j].pos => after[i].pos # after[j].pos

\* C28: two lines of one axis that survive a crop and had different pos
\* before it have different pos in the returned grid.
C28_DistinctStayDistinct ==
    (Cropped /\ grid # Null) =>
        /\ KeepsApart(grid.horizontal, cropResult.grid.horizontal, "y")
        /\ KeepsApart(grid.vertical, cropResult.grid.vertical, "x")

\* the operations that draw the unit piece [k, k+1] of the source axis
Drawing(ops, k) ==
    {i \in 1..Len(ops) : ops[i].srcStart <= k /\ k + 1 <= ops[i].srcStart + ops[i].srcLen}

\* ops are the spans of [0, total] between the removed ranges of the axis,
\* ascending, each drawn at its own length
ComplementOf(ops, axis, total) ==
    /\ \A i \in 1..Len(ops) :
          /\ ops[i].srcLen > 0
          /\ ops[i].srcStart >= 0
          /\ ops[i].srcStart + ops[i].srcLen <= total
          /\ ops[i].destLen = Frac(ops[i].srcLen, 1)
    /\ \A i \in 1..(Len(ops) - 1) :
          ops[i].srcStart + ops[i].srcLen < ops[i + 1].srcStart
    /\ \A k \in 0..(total - 1) :
          Cardinality(Drawing(ops, k)) = IF Removed(axis, k) THEN 0 ELSE 1

InputRanges(axis) == [i \in 1..Len(selections) |-> AxisRange(selections[i], axis)]

Merged(axis) == MergeRanges(InputRanges(axis))

\* sorted by start and pairwise disjoint
SortedDisjoint(ranges) ==
    /\ \A i \in 1..Len(ranges) : ranges[i].start < ranges[i].end
    /\ \A i \in 1..(Len(ranges) - 1) : ranges[i].end <= ranges[i + 1].start

\* the gap between two ranges (negative when they overlap)
Gap(a, b) == Max(a.start, b.start) - Min(a.end, b.end)

\* both input ranges lie in one returned range
Joined(axis, i, j) ==
    \E k \in 1..Len(Merged(axis)) :
        /\ Merged(axis)[k].start <= Min(InputRanges(axis)[i].start, InputRanges(axis)[j].start)
        /\ Max(InputRanges(axis)[i].end, InputRanges(axis)[j].end) <= Merged(axis)[k].end

\* C14 as stated: the result is sorted and disjoint, and two input ranges
\* that overlap, touch or lie at most 1px apart are in one returned range.
C14_GapOfOneMerged ==
    Cropped =>
        \A axis \in {"x", "y"} :
            /\ SortedDisjoint(Merged(axis))
            /\ \A i, j \in 1..Len(selections) :
                  Gap(InputRanges(axis)[i], InputRanges(axis)[j]) <= 1 => Joined(axis, i, j)

\* C14 (amended): the result is sorted by start, its ranges neither overlap
\* nor touch, and it covers exactly what the input ranges cover: ranges
\* that overlap or touch are merged, ranges 1px or more apart stay apart
\* unless other ranges bridge them.
C14_UnionOfTouching ==
    Cropped =>
        \A axis \in {"x", "y"} :
            /\ SortedDisjoint(Merged(axis))
            /\ \A i \in 1..(Len(Merged(axis)) - 1) :
                  Merged(axis)[i].end < Merged(axis)[i + 1].start
            /\ \A k \in Span :
                  (\E i \in 1..Len(Merged(axis)) :
                      Merged(axis)[i].start <= k /\ k + 1 <= Merged(axis)[i].end)
                  <=> (\E i \in 1..Len(selections) :
                          /\ InputRanges(axis)[i].start <= k
                          /\ k + 1 <= InputRanges(axis)[i].end)
            /\ \A i, j \in 1..Len(selections) :
                  Gap(InputRanges(axis)[i], InputRanges(axis)[j]) <= 0 => Joined(axis, i, j)

\* y-ranges exactly 1px apart stay two ranges, overlapping x-ranges become
\* one
C14_Witness ==
    /\ Cropped
    /\ Len(selections) = 2
    /\ Gap(InputRanges("y")[1], InputRanges("y")[2]) = 1
    /\ Len(Merged("y")) = 2
    /\ Gap(InputRanges("x")[1], InputRanges("x")[2]) < 0
    /\ Len(Merged("x")) = 1

\* C15: in horizontal mode the width stays item.width and the vertical
\* lines are all kept at their pos; in vertical mode the height stays
\* item.height and the horizontal lines are all kept at their pos.
C15_OtherAxisUntouched ==
    Cropped =>
        /\ mode = "horizontal" =>
              /\ cropResult.width = item.width
              /\ grid # Null => MapPos(cropResult.grid.vertical) = MapPos(grid.vertical)
        /\ mode = "vertical" =>
              /\ cropResult.height = item.height
              /\ grid # Null => MapPos(cropResult.grid.horizontal) = MapPos(grid.horizontal)

\* horizontal mode, a selection across the middle vertical line: rows go,
\* the line stays where it is
C15_Witness ==
    /\ Cropped
    /\ mode = "horizontal"
    /\ grid # Null
    /\ MapPos(grid.vertical) = <<0, CropW \div 2, CropW>>
    /\ \E i \in 1..Len(selections) :
          /\ XRange(selections[i]).start < CropW \div 2
          /\ CropW \div 2 < XRange(selections[i]).end
    /\ cropResult.height < item.height
    /\ cropResult.width = item.width
    /\ MapPos(cropResult.grid.vertical) = <<0, CropW \div 2, CropW>>

\* C16: processImageCrop never returns a width or a height below 1.
C16_AtLeastOnePixel ==
    Cropped => cropResult.width >= 1 /\ cropResult.height >= 1

\* the selections take every column, or every row, and more (they overlap
\* or reach outside the image): the result is 1px on that axis
C16_Witness ==
    /\ Cropped
    /\ \E axis \in {"x", "y"} :
          /\ RemovedTotal(axis) >= AxisLength(axis)
          /\ TotalLength(InputRanges(axis)) > AxisLength(axis)
          /\ (IF axis = "x" THEN cropResult.width ELSE cropResult.height) = 1

\* the strips of a pass follow one another from 0 to size
CoverAxis(pass, size) ==
    /\ Len(pass) >= 1
    /\ pass[1].strip.start = 0
    /\ pass[Len(pass)].strip.end = size
    /\ \A i \in 1..Len(pass) : pass[i].strip.start < pass[i].strip.end
    /\ \A i \in 1..(Len(pass) - 1) : pass[i].strip.end = pass[i + 1].strip.start

\* C20: whenever a pass plans by strips, its strips are contiguous, do not
\* overlap and cover the axis exactly: [0, width] in pass 1, [0, finalH] in
\* pass 2, whatever the grid; with no grid there is one strip.
C20_StripsCoverAxis ==
    Cropped =>
        /\ GlobalYRanges(selections, mode) # <<>> =>
               /\ CoverAxis(cropResult.pass1, item.width)
               /\ grid = Null => Len(cropResult.pass1) = 1
        /\ GlobalXRanges(selections, mode) # <<>> =>
               /\ CoverAxis(cropResult.pass2, cropResult.height)
               /\ grid = Null => Len(cropResult.pass2) = 1

\* the cells processImageCrop hands to the planner, and the strategy (cuts
\* and squish debts) of the i-th strip of each pass
CropCells ==
    IF grid # Null /\ smartMode THEN GetActualCells(grid, item.width, item.height)
    ELSE <<>>

Pass1Cells == CropCells

Pass2Cells == MappedCells(CropCells, GlobalYRanges(selections, mode))

Pass1Strategy(i) ==
    Strategy(GlobalYRanges(selections, mode), Pass1Cells,
             cropResult.pass1[i].strip.start, cropResult.pass1[i].strip.end,
             OriginalData(item), item.width, TRUE)

Pass2Strategy(i) ==
    Strategy(GlobalXRanges(selections, mode), Pass2Cells,
             cropResult.pass2[i].strip.start, cropResult.pass2[i].strip.end,
             Pass1Raw(item, cropResult.pass1, cropResult.height), item.width, FALSE)

\* the part of cell c on the planner's axis, inside [0, total]
CellFrom(c, isVerticalCut) == Max(0, IF isVerticalCut THEN c.y ELSE c.x)

CellTo(c, total, isVerticalCut) ==
    Min(total, IF isVerticalCut THEN c.y + c.h ELSE c.x + c.w)

\* the operations whose source span lies in [from, to]
OpsWithin(ops, from, to) ==
    SelectSeq(ops, LAMBDA o : from <= o.srcStart /\ o.srcStart + o.srcLen <= to)

\* how many pixels of [from, to] no physical cut takes
NonCut(cuts, from, to) ==
    Cardinality({k \in from..(to - 1) :
                    ~\E i \in 1..Len(cuts) : cuts[i].start <= k /\ k + 1 <= cuts[i].end})

\* every cell with debt is drawn at its non-cut length less the debt
ShrinksByDebt(ops, st, axisCells, total, isVerticalCut) ==
    \A k \in 1..Len(axisCells) :
        st.cellSquishMap[k] > 0 =>
            LET from == CellFrom(axisCells[k], isVerticalCut)
                to == CellTo(axisCells[k], total, isVerticalCut)
                sum == DestSum(OpsWithin(ops, from, to))
            IN sum.num = (NonCut(st.physicalCuts, from, to) - st.cellSquishMap[k]) * sum.den

\* C17: for every cell that carries squish debt in a strip, the destLen
\* values of the operations over the cell's non-cut pixels sum to the
\* length of those pixels minus the debt.
C17_CellShrinksByDebt ==
    (Cropped /\ smartMode) =>
        /\ \A i \in 1..Len(cropResult.pass1) :
              ShrinksByDebt(cropResult.pass1[i].ops, Pass1Strategy(i), Pass1Cells,
                            item.height, TRUE)
        /\ \A i \in 1..Len(cropResult.pass2) :
              ShrinksByDebt(cropResult.pass2[i].ops, Pass2Strategy(i), Pass2Cells,
                            item.width, FALSE)

\* every line of the grid spans something
ProperLines(g) ==
    g # Null =>
        /\ \A i \in 1..Len(g.horizontal) : g.horizontal[i].start < g.horizontal[i].end
        /\ \A i \in 1..Len(g.vertical) : g.vertical[i].start < g.vertical[i].end

\* C12: every line of the grid the crop starts from and of the grid it
\* returns has start < end.
C12_StartBeforeEnd ==
    /\ ProperLines(grid)
    /\ Cropped => ProperLines(cropResult.grid)

----------------------------------------------------------------------------
(* Properties of getRegionEnergy and of the cut-or-squish decision, stated  *)
(* over the last direct call (planCall) and what it returned (planResult).  *)

EnergyCall == planCall # Null /\ planCall.fn = "getRegionEnergy"

StripCall == planCall # Null /\ planCall.fn = "getStripOperations"

\* the region lies in the image and is at least 2px wide
RegionInImage(r) ==
    /\ r.x >= 0 /\ r.y >= 0
    /\ r.w >= 2 /\ r.h >= 1
    /\ r.x + r.w <= item.width
    /\ r.y + r.h <= item.height

\* every pixel of the rect has the colour c
OneColour(r, c) ==
    \A x \in r.x..(r.x + r.w - 1), y \in r.y..(r.y + r.h - 1) : PixelAt(item, x, y) = c

\* the rect holds alternating black and white 1px columns
AlternatingColumns(r) ==
    \A x \in r.x..(r.x + r.w - 1), y \in r.y..(r.y + r.h - 1) :
        /\ PixelAt(item, x, y) \in {Black, White}
        /\ x + 1 < r.x + r.w => PixelAt(item, x + 1, y) # PixelAt(item, x, y)

\* the cell of the strip the range falls inside, along the cut's axis
RangeInsideCell(c) ==
    IF planCall.isVerticalCut
    THEN /\ c.x < planCall.strip.end /\ c.x + c.w > planCall.strip.start
         /\ c.y <= planCall.range.start /\ planCall.range.end <= c.y + c.h
    ELSE /\ c.y < planCall.strip.end /\ c.y + c.h > planCall.strip.start
         /\ c.x <= planCall.range.start /\ planCall.range.end <= c.x + c.w

\* C10 as stated: the energy of a region of one colour, light or dark, is
\* below 5.0; that of a region of alternating black and white 1px columns
\* is above 5.0; and a removal range inside a cell filled with such columns
\* is added to that cell's squish amount and makes no physical cut.
C10_EnergyBoundary ==
    /\ (EnergyCall /\ RegionInImage(planCall.region)
          /\ \E c \in {White, LightGrey, DarkGrey, Navy, Black} :
                OneColour(planCall.region, c))
         => planResult.num < 5 * planResult.den
    /\ (EnergyCall /\ RegionInImage(planCall.region)
          /\ AlternatingColumns(planCall.region))
         => planResult.num > 5 * planResult.den
    /\ StripCall =>
         \A k \in 1..Len(planCall.cells) :
             (RangeInsideCell(planCall.cells[k]) /\ AlternatingColumns(planCall.cells[k]))
                => /\ planResult.cellSquishMap[k]
                        = planCall.range.end - planCall.range.start
                   /\ planResult.physicalCuts = <<>>

\* the cell lies in the strip of the call, holds the operation's source span
\* along the cut's axis and is touched by the removal range (it overlaps
\* the cell or ends where the cell begins)
TouchedCellOf(c, op) ==
    LET from == IF planCall.isVerticalCut THEN c.y ELSE c.x
        to == IF planCall.isVerticalCut THEN c.y + c.h ELSE c.x + c.w
    IN /\ InStrip(c, planCall.strip.start, planCall.strip.end, planCall.isVerticalCut)
       /\ from <= op.srcStart
       /\ op.srcStart + op.srcLen <= to
       /\ planCall.range.start <= to
       /\ planCall.range.end >= from

\* C18: in smart mode an operation is scaled (destLen # srcLen) only if its
\* source span lies in a cell of the current strip that the removal range
\* touches; operations in untouched cells or outside every cell keep
\* destLen = srcLen.
C18_OnlyTouchedCellsScaled ==
    StripCall =>
        \A i \in 1..Len(planResult.ops) :
            planResult.ops[i].destLen # Frac(planResult.ops[i].srcLen, 1) =>
                \E k \in 1..Len(planCall.cells) :
                    TouchedCellOf(planCall.cells[k], planResult.ops[i])

====
